---- MODULE Spec2Model ----
(***************************************************************************)
(* A model of the bundle library (github.com/jvzantvoort/bundle): the     *)
(* file lock of package lock, the checksum engine and manifest file of    *)
(* package checksum, and the handlers of package bundle and of the CLI    *)
(* that read and write the files of a bundle's .bundle/ directory.        *)
(*                                                                         *)
(* Strings are sequences of byte values, so that sorting, joining,        *)
(* formatting and parsing are computed the way the Go code computes them. *)
(* SHA-256 is modelled as a collision-free tagging of its input.          *)
(***************************************************************************)
EXTENDS Integers, Sequences, FiniteSets, TLC

(***************************************************************************)
(* Bounds of the model.                                                    *)
(***************************************************************************)
NumActors == 2
MaxHashes == 3
MaxHashLen == 2

(***************************************************************************)
(* Byte values the code names in its string literals.                      *)
(***************************************************************************)
NL == 10
SP == 32
DOT == 46
SLASH == 47

VARIABLES
    marker,      \* .bundle/.lock: <<>> when absent, <<pid>> when present
    pc,          \* pc[a]: the statement actor a is about to execute
    handle,      \* handle[a]: the *Lock a got from a direct AcquireLock call
    res,         \* res[a]: what a's last finished call returned
    local,       \* local[a]: the local variables of the call a is in
    tree,        \* the files under the bundle path, .bundle/ excluded
    dotBundle,   \* what is at .bundle: "dir", "file", "none", or "nopath"
                 \* when the bundle path itself does not exist
    meta,        \* .bundle/META.json: <<>> or <<record>>
    manifest,    \* .bundle/SHA256SUM.txt: <<>> or <<text>>
    state,       \* .bundle/STATE.json: <<>> or <<record>>
    tags,        \* .bundle/TAGS.txt: <<>> or <<text>>
    hashesIn,    \* an argument of ComputeBundleChecksum
    hashesPerm,  \* a reordering of hashesIn
    idOrig,      \* <<>> or <<ComputeBundleChecksum(hashesIn)>>
    idPerm,      \* <<>> or <<ComputeBundleChecksum(hashesPerm)>>
    sources,     \* sources[s]: the directory at the path s given to import
    pool,        \* the pool: what is at its root and the entries under it
    otherMarker, \* the lock marker of the bundle at OtherPath: <<>> or <<pid>>
    collection,  \* the Tags field of a tag collection in memory
    tagCall      \* <<>> or <<the last call on the collection, with its result>>

lockVars == <<marker, pc, handle, res, local>>
fsVars == <<tree, dotBundle, meta, manifest, state, tags>>
sumVars == <<hashesIn, hashesPerm, idOrig, idPerm>>
poolVars == <<sources, pool>>
sideVars == <<otherMarker, collection, tagCall>>
vars == <<marker, pc, handle, res, local, tree, dotBundle, meta, manifest,
          state, tags, hashesIn, hashesPerm, idOrig, idPerm, sources, pool,
          otherMarker, collection, tagCall>>

(***************************************************************************)
(* Strings of bytes.                                                       *)
(***************************************************************************)

\* Go's < on strings: byte-wise lexicographic order.
RECURSIVE StringLess(_, _)
StringLess(s, t) ==
    IF s = <<>> THEN t # <<>>
    ELSE IF t = <<>> THEN FALSE
    ELSE IF Head(s) # Head(t) THEN Head(s) < Head(t)
    ELSE StringLess(Tail(s), Tail(t))

\* Insertion of one string into a sorted sequence of strings.
RECURSIVE InsertString(_, _)
InsertString(x, sorted) ==
    IF sorted = <<>> THEN <<x>>
    ELSE IF StringLess(x, Head(sorted)) THEN <<x>> \o sorted
    ELSE <<Head(sorted)>> \o InsertString(x, Tail(sorted))

\* sort.Strings: the strings in ascending byte order, duplicates kept.
RECURSIVE SortStrings(_)
SortStrings(ss) ==
    IF ss = <<>> THEN <<>>
    ELSE InsertString(Head(ss), SortStrings(Tail(ss)))

\* strings.Join: nothing for no element, else the first element followed
\* by sep and the element for each further one.
RECURSIVE JoinRest(_, _)
JoinRest(elems, sep) ==
    IF elems = <<>> THEN <<>>
    ELSE sep \o Head(elems) \o JoinRest(Tail(elems), sep)

Join(elems, sep) ==
    IF elems = <<>> THEN <<>>
    ELSE Head(elems) \o JoinRest(Tail(elems), sep)

(***************************************************************************)
(* Package checksum: the bundle checksum.                                  *)
(***************************************************************************)

\* sha256.Sum256, as a collision-free function of the bytes hashed.
Sum256(bytes) == [sha256 |-> bytes]

\* One lowercase hexadecimal digit.
HexDigit(n) == IF n < 10 THEN 48 + n ELSE 87 + n

\* The two digits of each byte, the high half first.
HexBytes(bytes) ==
    [i \in 1..(2 * Len(bytes)) |->
        IF i % 2 = 1 THEN HexDigit(bytes[(i + 1) \div 2] \div 16)
        ELSE HexDigit(bytes[i \div 2] % 16)]

\* hex.EncodeToString of a digest: two hexadecimal digits per byte.
EncodeToString(digest) == HexBytes(digest.sha256)

\* A plausible slip: the checksums are hashed in the order given.
ComputeBundleChecksumUnsorted(checksums) ==
    EncodeToString(Sum256(Join(checksums, <<NL>>)))

\* A plausible slip: every checksum is followed by a newline.
ComputeBundleChecksumTrailing(checksums) ==
    EncodeToString(Sum256(Join(SortStrings(checksums), <<NL>>)
                          \o (IF checksums = <<>> THEN <<>> ELSE <<NL>>)))

ComputeBundleChecksum(checksums) ==
    LET sorted == SortStrings(checksums)
        combined == Join(sorted, <<NL>>)
    IN  EncodeToString(Sum256(combined))

(***************************************************************************)
(* The files of the bundle directory.                                      *)
(***************************************************************************)

\* The directory the handlers are called on ("/d").
BundlePath == <<SLASH, 100>>

\* The file names that can exist under BundlePath: "a" and "b c".
PathA == <<97>>
PathBC == <<98, SP, 99>>
Paths == { PathA, PathBC }

\* The contents a file can have: "h" and "hi".
Contents == { <<104>>, <<104, 105>> }

\* What a path can hold: nothing, a regular file with some content, a
\* regular file that cannot be opened for reading, a directory, or a
\* symbolic link: to a regular file outside the bundle, with the content
\* of that file as data, or to a path that does not exist.
NoFile == [kind |-> "none", readable |-> FALSE, data |-> <<>>]
RegularFile(content) == [kind |-> "file", readable |-> TRUE, data |-> content]
UnreadableFile == [kind |-> "file", readable |-> FALSE, data |-> <<>>]
Directory == [kind |-> "dir", readable |-> FALSE, data |-> <<>>]
Symlink(content) == [kind |-> "symlink", readable |-> TRUE, data |-> content]
DanglingSymlink == [kind |-> "symlink", readable |-> FALSE, data |-> <<>>]

\* The path every symbolic link holds ("/t").
LinkTarget == <<SLASH, 116>>

\* The states of the two files: "a" has any content, cannot be read or
\* does not exist, "b c" has the content "h" or does not exist.
FileStates(p) ==
    IF p = PathA
    THEN {RegularFile(c) : c \in Contents} \cup {UnreadableFile, NoFile}
    ELSE {RegularFile(<<104>>), NoFile}

Trees == {t \in [Paths -> UNION {FileStates(p) : p \in Paths}] :
             \A p \in Paths : t[p] \in FileStates(p)}

\* os.Stat, which follows symbolic links, finds something at the path.
Exists(f) == f.kind # "none" /\ (f.kind = "symlink" => f.readable)

\* The directory holds an entry of that name: os.Lstat finds something.
Listed(f) == f.kind # "none"

\* info.Size() of the os.Lstat of an entry: the bytes of a regular file,
\* the length of the path a symbolic link holds.
FileSize(f) == IF f.kind = "symlink" THEN Len(LinkTarget) ELSE Len(f.data)

\* What is found at BundlePath/rel: the empty relative path is the bundle
\* directory itself, any name not in the tree does not exist.
FileAt(t, rel) ==
    IF rel = <<>> THEN Directory
    ELSE IF rel \in DOMAIN t THEN t[rel]
    ELSE NoFile

\* ComputeFileSHA256: the hexadecimal digest of the bytes os.Open and
\* io.Copy read at the path, through a symbolic link if it is one, or an
\* error when nothing can be opened or read there.
ComputeFileSHA256(f) ==
    IF f.kind \in {"file", "symlink"} /\ f.readable
    THEN [err |-> FALSE, sum |-> EncodeToString(Sum256(f.data))]
    ELSE [err |-> TRUE, sum |-> <<>>]

\* strings.Contains.
RECURSIVE HasPrefix(_, _)
HasPrefix(s, prefix) ==
    IF prefix = <<>> THEN TRUE
    ELSE IF s = <<>> THEN FALSE
    ELSE Head(s) = Head(prefix) /\ HasPrefix(Tail(s), Tail(prefix))

RECURSIVE Contains(_, _)
Contains(s, substr) ==
    IF HasPrefix(s, substr) THEN TRUE
    ELSE IF s = <<>> THEN FALSE
    ELSE Contains(Tail(s), substr)

\* Whether the sequence holds the element.
InSeq(x, seq) == \E i \in 1..Len(seq) : seq[i] = x

\* The name ".bundle".
DotBundleName == <<DOT, 98, 117, 110, 100, 108, 101>>

\* filepath.Walk visits the entries of a directory in lexical order.
WalkOrder(t) == SortStrings(
    LET RECURSIVE AsSeq(_)
        AsSeq(S) == IF S = {} THEN <<>>
                    ELSE LET x == CHOOSE y \in S : TRUE
                         IN  <<x>> \o AsSeq(S \ {x})
    IN  AsSeq({p \in DOMAIN t : Listed(t[p])}))

\* The name "SHA256SUM.txt".
ManifestName == <<83, 72, 65, 50, 53, 54, 83, 85, 77, DOT, 116, 120, 116>>

\* The names of the directories above the file with the relative path rel:
\* the parts of rel that end at a slash.
RECURSIVE DirNames(_, _)
DirNames(rel, name) ==
    IF rel = <<>> THEN <<>>
    ELSE IF Head(rel) = SLASH THEN <<name>> \o DirNames(Tail(rel), <<>>)
    ELSE DirNames(Tail(rel), Append(name, Head(rel)))

\* The walk does not reach the file: the callback returned filepath.SkipDir
\* for a directory above it, whose info.Name() is ".bundle".
SkipDir(rel) == InSeq(DotBundleName, DirNames(rel, <<>>))

\* A plausible slip: no directory is skipped, so that the SHA256SUM.txt of
\* an earlier Create is scanned with the other files.
RECURSIVE ComputeWalkUnpruned(_, _, _)
ComputeWalkUnpruned(t, todo, cf) ==
    IF todo = <<>>
    THEN IF manifest = <<>> THEN cf
         ELSE [cf EXCEPT !.Records =
                  Append(@, [Checksum |-> EncodeToString(Sum256(manifest[1])),
                             FilePath |-> DotBundleName \o <<SLASH>> \o ManifestName]),
                         !.TotalSize = @ + Len(manifest[1])]
    ELSE LET rel == Head(todo)
             sum == ComputeFileSHA256(t[rel])
         IN  IF sum.err
             THEN [cf EXCEPT !.err = TRUE]
             ELSE ComputeWalkUnpruned(t, Tail(todo),
                    [cf EXCEPT !.Records = Append(@, [Checksum |-> sum.sum,
                                                      FilePath |-> rel]),
                               !.TotalSize = @ + FileSize(t[rel])])

\* The walk callback of Compute applied to the files in walk order.
RECURSIVE ComputeWalk(_, _, _)
ComputeWalk(t, todo, cf) ==
    IF todo = <<>> THEN cf
    ELSE LET rel == Head(todo)
             path == BundlePath \o <<SLASH>> \o rel
             sum == ComputeFileSHA256(t[rel])
         IN  IF SkipDir(rel)
             THEN ComputeWalk(t, Tail(todo), cf)
             ELSE IF Contains(path, DotBundleName)
             THEN ComputeWalk(t, Tail(todo), cf)
             ELSE IF sum.err
             THEN [cf EXCEPT !.err = TRUE]
             ELSE ComputeWalk(t, Tail(todo),
                    [cf EXCEPT !.Records = Append(@, [Checksum |-> sum.sum,
                                                      FilePath |-> rel]),
                               !.TotalSize = @ + FileSize(t[rel])])

\* ChecksumFile.Compute.
Compute(t) ==
    ComputeWalk(t, WalkOrder(t), [err |-> FALSE, Records |-> <<>>, TotalSize |-> 0])

\* The sort.Slice call of Save: ascending by Checksum.  For the short
\* slices of the model Go sorts by insertion, which keeps the order of
\* records with equal checksums.
RECURSIVE InsertRecord(_, _)
InsertRecord(r, sorted) ==
    IF sorted = <<>> THEN <<r>>
    ELSE IF StringLess(r.Checksum, Head(sorted).Checksum) THEN <<r>> \o sorted
    ELSE <<Head(sorted)>> \o InsertRecord(r, Tail(sorted))

RECURSIVE SortTail(_, _)
SortTail(done, todo) ==
    IF todo = <<>> THEN done
    ELSE SortTail(InsertRecord(Head(todo), done), Tail(todo))

\* A plausible slip: the records are written in the order of the walk.
SortRecordsNone(records) == records

SortRecords(records) == SortTail(<<>>, records)

\* fmt.Fprintf(writer, "%s  ./%s\n", record.Checksum, record.FilePath)
FormatRecord(record) ==
    record.Checksum \o <<SP, SP, DOT, SLASH>> \o record.FilePath \o <<NL>>

RECURSIVE FormatRecords(_)
FormatRecords(records) ==
    IF records = <<>> THEN <<>>
    ELSE FormatRecord(Head(records)) \o FormatRecords(Tail(records))

\* ChecksumFile.Save: the records as Save leaves them, and the text it
\* writes to SHA256SUM.txt.
Save(records) ==
    LET sorted == SortRecords(records)
    IN  [Records |-> sorted, text |-> FormatRecords(sorted)]

\* The white space strings.Fields splits at.
IsSpace(b) == b \in {9, 10, 11, 12, 13, SP}

\* bufio.Scanner with ScanLines: the text cut at newlines, a carriage
\* return at the end of a line dropped, no empty line after the last newline.
RECURSIVE ScanLines(_, _)
ScanLines(text, line) ==
    LET DropCR(l) == IF l # <<>> /\ l[Len(l)] = 13 THEN SubSeq(l, 1, Len(l) - 1) ELSE l
    IN  IF text = <<>> THEN (IF line = <<>> THEN <<>> ELSE <<DropCR(line)>>)
        ELSE IF Head(text) = NL THEN <<DropCR(line)>> \o ScanLines(Tail(text), <<>>)
        ELSE ScanLines(Tail(text), Append(line, Head(text)))

\* strings.Fields: the maximal runs of bytes that are not white space.
RECURSIVE Fields(_, _)
Fields(s, word) ==
    IF s = <<>> THEN (IF word = <<>> THEN <<>> ELSE <<word>>)
    ELSE IF IsSpace(Head(s))
    THEN (IF word = <<>> THEN <<>> ELSE <<word>>) \o Fields(Tail(s), <<>>)
    ELSE Fields(Tail(s), Append(word, Head(s)))

\* strings.TrimPrefix.
TrimPrefix(s, prefix) ==
    IF HasPrefix(s, prefix) THEN SubSeq(s, Len(prefix) + 1, Len(s)) ELSE s

\* The loop of ChecksumFile.Load over the lines of SHA256SUM.txt.
RECURSIVE LoadLines(_)
LoadLines(lines) ==
    IF lines = <<>> THEN <<>>
    ELSE LET parts == Fields(Head(lines), <<>>)
         IN  (IF Len(parts) >= 2
              THEN << [Checksum |-> parts[1],
                       FilePath |-> TrimPrefix(parts[2], <<DOT, SLASH>>)] >>
              ELSE <<>>) \o LoadLines(Tail(lines))

\* ChecksumFile.Load of a SHA256SUM.txt with the given text.
Load(text) == LoadLines(ScanLines(text, <<>>))

\* A plausible slip: the check stops at the first missing file.
RECURSIVE VerifyStopAtMissing(_, _, _)
VerifyStopAtMissing(records, t, corrupted) ==
    IF records = <<>> THEN [err |-> FALSE, corrupted |-> corrupted]
    ELSE LET record == Head(records)
             f == FileAt(t, record.FilePath)
             sum == ComputeFileSHA256(f)
         IN  IF ~Exists(f)
             THEN [err |-> FALSE, corrupted |-> Append(corrupted, record.FilePath)]
             ELSE IF sum.err
             THEN [err |-> TRUE, corrupted |-> <<>>]
             ELSE VerifyStopAtMissing(Tail(records), t,
                    IF sum.sum # record.Checksum
                    THEN Append(corrupted, record.FilePath)
                    ELSE corrupted)

\* ChecksumFile.Verify: the loop over the records, with the paths found
\* corrupted so far.
RECURSIVE VerifyRecords(_, _, _)
VerifyRecords(records, t, corrupted) ==
    IF records = <<>> THEN [err |-> FALSE, corrupted |-> corrupted]
    ELSE LET record == Head(records)
             f == FileAt(t, record.FilePath)
             sum == ComputeFileSHA256(f)
         IN  IF ~Exists(f)
             THEN VerifyRecords(Tail(records), t, Append(corrupted, record.FilePath))
             ELSE IF sum.err
             THEN [err |-> TRUE, corrupted |-> <<>>]
             ELSE VerifyRecords(Tail(records), t,
                    IF sum.sum # record.Checksum
                    THEN Append(corrupted, record.FilePath)
                    ELSE corrupted)

(***************************************************************************)
(* Package lock.                                                           *)
(***************************************************************************)

Actors == 1..NumActors

\* os.MkdirAll of the .bundle directory: it fails when something that is
\* not a directory is in the way, and creates the directory, with the
\* bundle path above it, when absent.
MkdirAll(d) ==
    IF d = "file" THEN [err |-> TRUE, dir |-> d]
    ELSE [err |-> FALSE, dir |-> "dir"]

\* A plausible slip: the marker is created without O_EXCL.
OpenFileTruncating(mk, pid) == [exist |-> FALSE, marker |-> <<pid>>]

\* A plausible slip: the marker is opened before its existence is checked,
\* so that the process id of the failing caller replaces the holder's.
OpenFileOverwriting(mk, pid) == [exist |-> mk # <<>>, marker |-> <<pid>>]

\* os.OpenFile(lockPath, O_CREATE|O_EXCL|O_WRONLY) followed by the write of
\* the process id: the marker is created only when it does not exist.
OpenFileExclusive(mk, pid) ==
    IF mk # <<>> THEN [exist |-> TRUE, marker |-> mk]
    ELSE [exist |-> FALSE, marker |-> <<pid>>]

\* os.Remove(l.lockPath): whatever is at the lock path is removed.
Remove(mk) == <<>>

(***************************************************************************)
(* The state of a call.                                                    *)
(***************************************************************************)

\* The zero value of state.State.
ZeroState == [Verified |-> FALSE, Replicas |-> <<>>, SizeBytes |-> 0]

\* The zero value of metadata.Metadata.
ZeroMetadata == [Title |-> <<>>, BundleChecksum |-> <<>>, Author |-> <<>>,
                 CreatedAt |-> 0, Version |-> 0]

\* The titles and tags the callers pass: "T", "N" and "x".
Titles == { <<84>>, <<78>> }
TagNames == { <<120>> }

\* The local variables of an actor that is in no call.
NoLocal == [op |-> "", title |-> <<>>, arg |-> <<>>, attempts |-> 0,
            Records |-> <<>>, TotalSize |-> 0, bundleChecksum |-> <<>>,
            corrupted |-> <<>>, bundleState |-> ZeroState,
            metadata |-> ZeroMetadata, Tags |-> <<>>, err |-> "",
            bundlePath |-> "", move |-> FALSE, entries |-> <<>>]

\* What a finished call returned: err is "" for success, "locked" for the
\* lock error, "notexist" for an error that os.IsNotExist accepts,
\* "notbundle" for utils.ErrNotABundle, "duplicate" for the error of an
\* import whose destination exists, "panic" for a run-time panic, "io" for
\* any other error.
Result(op, err) == [op |-> op, err |-> err, verified |-> FALSE, corrupted |-> <<>>,
                    bundlePath |-> "", move |-> FALSE, bundles |-> <<>>]

NoResult == Result("", "")

\* Actor a is in no call: it has made none yet ("idle") or still has the
\* result of its last one ("done").
BetweenCalls(a) == pc[a] \in {"idle", "done"}

\* The call of actor a returns r.
Return(a, r) ==
    /\ pc' = [pc EXCEPT ![a] = "done"]
    /\ local' = [local EXCEPT ![a] = NoLocal]
    /\ res' = [res EXCEPT ![a] = r]

\* The call of actor a goes on at label l with local variables loc.
Goto(a, l, loc) ==
    /\ pc' = [pc EXCEPT ![a] = l]
    /\ local' = [local EXCEPT ![a] = loc]
    /\ res' = [res EXCEPT ![a] = NoResult]

\* A plausible slip: every failure of AcquireLock is reported as the lock
\* error.
AcquireMkdirLocked(a, op, title) ==
    /\ BetweenCalls(a)
    /\ LET m == MkdirAll(dotBundle)
       IN  /\ dotBundle' = m.dir
           /\ IF m.err
              THEN Return(a, Result(op, "locked"))
              ELSE Goto(a, "acq_open", [NoLocal EXCEPT !.op = op, !.title = title])
    /\ UNCHANGED <<marker, handle, tree, meta, manifest, state, tags, sumVars, poolVars, sideVars>>

\* The first statement of AcquireLock, called for op: MkdirAll.
AcquireMkdir(a, op, title) ==
    /\ BetweenCalls(a)
    /\ LET m == MkdirAll(dotBundle)
       IN  /\ dotBundle' = m.dir
           /\ IF m.err
              THEN Return(a, Result(op, "io"))
              ELSE Goto(a, "acq_open", [NoLocal EXCEPT !.op = op, !.title = title])
    /\ UNCHANGED <<marker, handle, tree, meta, manifest, state, tags, sumVars, poolVars, sideVars>>

\* A direct call of lock.AcquireLock.
AcquireLock(a) == AcquireMkdir(a, "acquire", <<>>)

\* A plausible slip: a held lock is waited for.
AcquireOpenRetrying(a) ==
    /\ pc[a] = "acq_open"
    /\ LET o == OpenFileExclusive(marker, a)
           loc == [local[a] EXCEPT !.attempts = @ + 1]
       IN  /\ marker' = o.marker
           /\ IF o.exist
              THEN Goto(a, "acq_open", loc) /\ handle' = handle
              ELSE IF loc.op = "create"
              THEN Goto(a, "cr_mkdir", loc) /\ handle' = handle
              ELSE /\ Return(a, Result(loc.op, ""))
                   /\ handle' = [handle EXCEPT ![a] = "live"]
    /\ UNCHANGED <<fsVars, sumVars, poolVars, sideVars>>

\* The second statement of AcquireLock: the exclusive create of the marker
\* and the return to the caller, which is bundle.Create or the actor itself.
AcquireOpen(a) ==
    /\ pc[a] = "acq_open"
    /\ LET o == OpenFileExclusive(marker, a)
           loc == [local[a] EXCEPT !.attempts = @ + 1]
       IN  /\ marker' = o.marker
           /\ IF o.exist
              THEN Return(a, Result(loc.op, "locked")) /\ handle' = handle
              ELSE IF loc.op = "create"
              THEN Goto(a, "cr_mkdir", loc) /\ handle' = handle
              ELSE /\ Return(a, Result(loc.op, ""))
                   /\ handle' = [handle EXCEPT ![a] = "live"]
    /\ UNCHANGED <<fsVars, sumVars, poolVars, sideVars>>

\* Lock.Release called on the handle of a direct acquisition.
Release(a) ==
    /\ BetweenCalls(a)
    /\ handle[a] = "live"
    /\ marker' = Remove(marker)
    /\ handle' = [handle EXCEPT ![a] = "released"]
    /\ UNCHANGED <<pc, local, res, fsVars, sumVars, poolVars, sideVars>>

\* Lock.Release called again on a handle that was released: the file of
\* the handle is closed, and os.Remove is called on the lock path all the
\* same.
ReleaseReleased(a) ==
    /\ BetweenCalls(a)
    /\ handle[a] = "released"
    /\ marker' = Remove(marker)
    /\ UNCHANGED <<pc, local, res, handle, fsVars, sumVars, poolVars, sideVars>>

\* The actor drops the result of its last call.
Forget(a) ==
    /\ pc[a] = "done"
    /\ pc' = [pc EXCEPT ![a] = "idle"]
    /\ res' = [res EXCEPT ![a] = NoResult]
    /\ UNCHANGED <<marker, handle, local, fsVars, sumVars, poolVars, sideVars>>

(***************************************************************************)
(* The lock of another bundle.                                             *)
(***************************************************************************)

\* The directory of another bundle ("/e").
OtherPath == <<SLASH, 101>>

\* The name ".lock".
LockName == <<DOT, 108, 111, 99, 107>>

\* A plausible slip: the marker is looked for under the working directory,
\* whatever the bundle.
LockPathShared(bundlePath) == DotBundleName \o <<SLASH>> \o LockName

\* lockPath: filepath.Join(bundlePath, ".bundle", ".lock").
LockPath(bundlePath) == bundlePath \o <<SLASH>> \o DotBundleName \o <<SLASH>> \o LockName

\* The file at a lock path: marker is the file at the lock path of
\* BundlePath, otherMarker the file at the other lock path.
MarkerAt(lockPath) == IF lockPath = LockPath(BundlePath) THEN marker ELSE otherMarker

\* The file at the lock path becomes mk, the other file stays.
WriteMarker(lockPath, mk) ==
    IF lockPath = LockPath(BundlePath)
    THEN marker' = mk /\ otherMarker' = otherMarker
    ELSE otherMarker' = mk /\ marker' = marker

\* lock.AcquireLock(OtherPath), in one step: the directory OtherPath/.bundle
\* exists, so that MkdirAll changes nothing.
AcquireLockOther(a) ==
    /\ BetweenCalls(a)
    /\ LET lockPath == LockPath(OtherPath)
           o == OpenFileExclusive(MarkerAt(lockPath), a)
       IN  /\ WriteMarker(lockPath, o.marker)
           /\ Return(a, Result("acquire_other", IF o.exist THEN "locked" ELSE ""))
    /\ UNCHANGED <<handle, fsVars, sumVars, poolVars, collection, tagCall>>

\* Lock.Release on the handle that AcquireLock(OtherPath) returned to a.
ReleaseOther(a) ==
    /\ BetweenCalls(a)
    /\ otherMarker = <<a>>
    /\ LET lockPath == LockPath(OtherPath)
       IN  WriteMarker(lockPath, Remove(MarkerAt(lockPath)))
    /\ UNCHANGED <<pc, local, res, handle, fsVars, sumVars, poolVars, collection, tagCall>>

(***************************************************************************)
(* Package bundle: Create.                                                 *)
(***************************************************************************)

\* os.WriteFile and os.Create followed by the writes: the file holds the
\* data when the call succeeds and is left as it was when it fails.
WriteFile(old, data, ok) == IF ok THEN <<data>> ELSE old

\* The user name Create records as author ("u").
Author == <<117>>

\* The instant time.Now() returns in Create: the calls of one run are not
\* told apart by their time, and 0 is the zero time.
Now == 1

\* The checksums of the records, in the order of the records.
Checksums(records) == [i \in 1..Len(records) |-> records[i].Checksum]

\* A plausible slip: the error return leaves without releasing the lock.
CreateFailNoRelease(a) == Return(a, Result("create", "io"))

\* An error return of Create after the lock was acquired: the deferred
\* Release runs before Create returns.
CreateFail(a) == Goto(a, "cr_release", [local[a] EXCEPT !.err = "io"])

\* bundle.Create: the call, up to the MkdirAll inside AcquireLock.
Create(a, title) == AcquireMkdir(a, "create", title)

\* os.MkdirAll(bundleDir) in Create.
CreateMkdir(a) ==
    /\ pc[a] = "cr_mkdir"
    /\ LET m == MkdirAll(dotBundle)
       IN  /\ dotBundle' = m.dir
           /\ IF m.err THEN CreateFail(a) ELSE Goto(a, "cr_compute", local[a])
    /\ UNCHANGED <<marker, handle, tree, meta, manifest, state, tags, sumVars, poolVars, sideVars>>

\* A plausible slip: the error of Compute is not looked at, and Create
\* goes on with the records found before the failure.
CreateComputeUnchecked(a) ==
    /\ pc[a] = "cr_compute"
    /\ LET cf == Compute(tree)
       IN  Goto(a, "cr_save_meta",
                [local[a] EXCEPT !.Records = cf.Records,
                                 !.TotalSize = cf.TotalSize,
                                 !.bundleChecksum =
                                     ComputeBundleChecksum(Checksums(cf.Records))])
    /\ UNCHANGED <<marker, handle, fsVars, sumVars, poolVars, sideVars>>

\* files.Compute(path) and the bundle checksum of the records found.
CreateCompute(a) ==
    /\ pc[a] = "cr_compute"
    /\ LET cf == Compute(tree)
       IN  IF cf.err
           THEN CreateFail(a)
           ELSE Goto(a, "cr_save_meta",
                     [local[a] EXCEPT !.Records = cf.Records,
                                      !.TotalSize = cf.TotalSize,
                                      !.bundleChecksum =
                                          ComputeBundleChecksum(Checksums(cf.Records))])
    /\ UNCHANGED <<marker, handle, fsVars, sumVars, poolVars, sideVars>>

\* meta.Save(path).
CreateSaveMeta(a) ==
    /\ pc[a] = "cr_save_meta"
    /\ \E ok \in BOOLEAN :
        /\ meta' = WriteFile(meta, [Title |-> local[a].title,
                                    BundleChecksum |-> local[a].bundleChecksum,
                                    Author |-> Author,
                                    CreatedAt |-> Now,
                                    Version |-> 1], ok)
        /\ IF ok THEN Goto(a, "cr_save_files", local[a]) ELSE CreateFail(a)
    /\ UNCHANGED <<marker, handle, tree, dotBundle, manifest, state, tags, sumVars, poolVars, sideVars>>

\* files.Save(path).
CreateSaveFiles(a) ==
    /\ pc[a] = "cr_save_files"
    /\ \E ok \in BOOLEAN :
        LET sv == Save(local[a].Records)
        IN  /\ manifest' = WriteFile(manifest, sv.text, ok)
            /\ IF ok
               THEN Goto(a, "cr_save_state", [local[a] EXCEPT !.Records = sv.Records])
               ELSE CreateFail(a)
    /\ UNCHANGED <<marker, handle, tree, dotBundle, meta, state, tags, sumVars, poolVars, sideVars>>

\* bundleState.Save(path).
CreateSaveState(a) ==
    /\ pc[a] = "cr_save_state"
    /\ \E ok \in BOOLEAN :
        /\ state' = WriteFile(state, [Verified |-> TRUE,
                                      Replicas |-> <<>>,
                                      SizeBytes |-> local[a].TotalSize], ok)
        /\ IF ok THEN Goto(a, "cr_save_tags", local[a]) ELSE CreateFail(a)
    /\ UNCHANGED <<marker, handle, tree, dotBundle, meta, manifest, tags, sumVars, poolVars, sideVars>>

\* bundleTags.Save(path) of the empty tag list.
CreateSaveTags(a) ==
    /\ pc[a] = "cr_save_tags"
    /\ \E ok \in BOOLEAN :
        /\ tags' = WriteFile(tags, <<>>, ok)
        /\ IF ok THEN Goto(a, "cr_release", local[a]) ELSE CreateFail(a)
    /\ UNCHANGED <<marker, handle, tree, dotBundle, meta, manifest, state, sumVars, poolVars, sideVars>>

\* The deferred bundleLock.Release() and the return of Create.
CreateRelease(a) ==
    /\ pc[a] = "cr_release"
    /\ marker' = Remove(marker)
    /\ Return(a, Result("create", local[a].err))
    /\ UNCHANGED <<handle, fsVars, sumVars, poolVars, sideVars>>

(***************************************************************************)
(* Package bundle: Verify.                                                 *)
(***************************************************************************)

\* ChecksumFile.Verify.
VerifyFiles(records, t) == VerifyRecords(records, t, <<>>)

\* State.MarkVerified (the time of the check is not modelled).
MarkVerified(s, verified) == [s EXCEPT !.Verified = verified]

\* A plausible slip: Verify takes the lock as Create does, and fails when
\* the marker exists.
VerifyLocked(a) ==
    /\ BetweenCalls(a)
    /\ IF marker # <<>>
       THEN Return(a, Result("verify", "locked"))
       ELSE IF dotBundle = "file"
       THEN Return(a, Result("verify", "io"))
       ELSE IF dotBundle # "dir" \/ manifest = <<>>
       THEN Return(a, Result("verify", "notexist"))
       ELSE Goto(a, "v_verify", [NoLocal EXCEPT !.op = "verify",
                                               !.Records = Load(manifest[1])])
    /\ UNCHANGED <<marker, handle, fsVars, sumVars, poolVars, sideVars>>

\* bundle.Verify: the call and files.Load(path), which returns the error
\* of os.Open when SHA256SUM.txt cannot be opened.
Verify(a) ==
    /\ BetweenCalls(a)
    /\ IF dotBundle = "file"
       THEN Return(a, Result("verify", "io"))
       ELSE IF dotBundle # "dir" \/ manifest = <<>>
       THEN Return(a, Result("verify", "notexist"))
       ELSE Goto(a, "v_verify", [NoLocal EXCEPT !.op = "verify",
                                               !.Records = Load(manifest[1])])
    /\ UNCHANGED <<marker, handle, fsVars, sumVars, poolVars, sideVars>>

\* files.Verify(path).
VerifyCheck(a) ==
    /\ pc[a] = "v_verify"
    /\ LET v == VerifyFiles(local[a].Records, tree)
       IN  IF v.err
           THEN Return(a, Result("verify", "io"))
           ELSE Goto(a, "v_state_load", [local[a] EXCEPT !.corrupted = v.corrupted])
    /\ UNCHANGED <<marker, handle, fsVars, sumVars, poolVars, sideVars>>

\* A plausible slip: Verify marks and saves a fresh State.
VerifyStateLoadZero(a) ==
    /\ pc[a] = "v_state_load"
    /\ Goto(a, "v_state_save", [local[a] EXCEPT !.bundleState = ZeroState])
    /\ UNCHANGED <<marker, handle, fsVars, sumVars, poolVars, sideVars>>

\* state.Load(path), or the zero State when it fails.
VerifyStateLoad(a) ==
    /\ pc[a] = "v_state_load"
    /\ Goto(a, "v_state_save",
            [local[a] EXCEPT !.bundleState =
                IF state = <<>> THEN ZeroState ELSE state[1]])
    /\ UNCHANGED <<marker, handle, fsVars, sumVars, poolVars, sideVars>>

\* MarkVerified, bundleState.Save(path), whose error is dropped, and the
\* return of Verify.
VerifyStateSave(a) ==
    /\ pc[a] = "v_state_save"
    /\ LET verified == Len(local[a].corrupted) = 0
       IN  /\ \E ok \in BOOLEAN :
                 state' = WriteFile(state, MarkVerified(local[a].bundleState, verified),
                                    ok /\ dotBundle = "dir")
           /\ Return(a, [Result("verify", "") EXCEPT !.verified = verified,
                                                     !.corrupted = local[a].corrupted])
    /\ UNCHANGED <<marker, handle, tree, dotBundle, meta, manifest, tags, sumVars, poolVars, sideVars>>

(***************************************************************************)
(* Package state: replicas.                                                *)
(***************************************************************************)

\* The locations of replicas that are recorded: "r" and "q".
ReplicaURIs == { <<114>>, <<113>> }

\* State.AddReplica: the location is appended when it is not present.
AddReplica(replicas, uri) == IF InSeq(uri, replicas) THEN replicas ELSE Append(replicas, uri)

\* A caller of the package records a replica, as the package shows it:
\* state.Load, AddReplica and Save.
RecordReplica(a, uri) ==
    /\ BetweenCalls(a)
    /\ IF dotBundle # "dir" \/ state = <<>>
       THEN Return(a, Result("replica", "notexist")) /\ state' = state
       ELSE \E ok \in BOOLEAN :
              /\ state' = WriteFile(state, [state[1] EXCEPT !.Replicas = AddReplica(@, uri)], ok)
              /\ Return(a, Result("replica", IF ok THEN "" ELSE "io"))
    /\ UNCHANGED <<marker, handle, tree, dotBundle, meta, manifest, tags, sumVars, poolVars, sideVars>>

(***************************************************************************)
(* Package tag.                                                            *)
(***************************************************************************)

\* strings.TrimSpace.
RECURSIVE TrimLeft(_)
TrimLeft(s) == IF s # <<>> /\ IsSpace(Head(s)) THEN TrimLeft(Tail(s)) ELSE s

RECURSIVE TrimRight(_)
TrimRight(s) ==
    IF s # <<>> /\ IsSpace(s[Len(s)]) THEN TrimRight(SubSeq(s, 1, Len(s) - 1)) ELSE s

TrimSpace(s) == TrimRight(TrimLeft(s))

\* strings.ToLower on ASCII.
ToLower(s) == [i \in 1..Len(s) |-> IF s[i] >= 65 /\ s[i] <= 90 THEN s[i] + 32 ELSE s[i]]

\* tagPattern: ^[a-z0-9._-]{1,64}$
MatchTagPattern(t) ==
    /\ Len(t) >= 1
    /\ Len(t) <= 64
    /\ \A i \in 1..Len(t) :
          \/ (t[i] >= 97 /\ t[i] <= 122)
          \/ (t[i] >= 48 /\ t[i] <= 57)
          \/ t[i] \in {DOT, 95, 45}

\* normalizeTag: the normalized tag, or ok = FALSE.
normalizeTag(s) ==
    LET t == ToLower(TrimSpace(s))
    IN  IF TrimSpace(s) = <<>> THEN [ok |-> FALSE, tag |-> <<>>]
        ELSE IF \E i \in 1..Len(t) : t[i] \in {SP, 9, 10, 13} THEN [ok |-> FALSE, tag |-> <<>>]
        ELSE IF ~MatchTagPattern(t) THEN [ok |-> FALSE, tag |-> <<>>]
        ELSE [ok |-> TRUE, tag |-> t]

\* Tags.Add: each valid new tag that is not yet present is appended.
RECURSIVE TagsAdd(_, _)
TagsAdd(tagList, newTags) ==
    IF newTags = <<>> THEN tagList
    ELSE LET nt == normalizeTag(Head(newTags))
         IN  TagsAdd(IF nt.ok /\ ~InSeq(nt.tag, tagList)
                     THEN Append(tagList, nt.tag) ELSE tagList,
                     Tail(newTags))

\* Tags.Remove: the tags that are not among the normalized removeTags.
TagsRemove(tagList, removeTags) ==
    LET removeSet == {normalizeTag(removeTags[i]).tag :
                        i \in {j \in 1..Len(removeTags) : normalizeTag(removeTags[j]).ok}}
    IN  SelectSeq(tagList, LAMBDA t : t \notin removeSet)

\* strings.Split(s, "\n").
RECURSIVE SplitLines(_, _)
SplitLines(text, line) ==
    IF text = <<>> THEN <<line>>
    ELSE IF Head(text) = NL THEN <<line>> \o SplitLines(Tail(text), <<>>)
    ELSE SplitLines(Tail(text), Append(line, Head(text)))

\* The loop of tag.Load over the lines of TAGS.txt.
RECURSIVE TagsLoadLines(_, _)
TagsLoadLines(lines, tagList) ==
    IF lines = <<>> THEN tagList
    ELSE LET trimmed == TrimSpace(Head(lines))
             nt == normalizeTag(trimmed)
         IN  TagsLoadLines(Tail(lines),
                 IF trimmed # <<>> /\ nt.ok /\ ~InSeq(nt.tag, tagList)
                 THEN Append(tagList, nt.tag) ELSE tagList)

\* tag.Load of a TAGS.txt with the given text.
TagsLoad(text) == TagsLoadLines(SplitLines(text, <<>>), <<>>)

\* The write loop of Tags.Save: each tag followed by a newline.
RECURSIVE TagsText(_)
TagsText(tagList) ==
    IF tagList = <<>> THEN <<>>
    ELSE Head(tagList) \o <<NL>> \o TagsText(Tail(tagList))

\* Tags.Save: the tags sorted, one per line.
TagsSave(tagList) ==
    LET sorted == SortStrings(tagList)
    IN  [Tags |-> sorted, text |-> TagsText(sorted)]

\* A plausible slip: List sorts the collection itself, as Save does.
TagsListInPlace(tagList) ==
    [Tags |-> SortStrings(tagList), sorted |-> SortStrings(tagList)]

\* Tags.List: a copy of the tags, sorted; the collection stays as it is.
TagsList(tagList) == [Tags |-> tagList, sorted |-> SortStrings(tagList)]

\* The arguments the callers pass to Add and Remove: "x", "X", " y ",
\* "z9", "a b", "", the two bytes of a letter outside ASCII, and a tag of
\* 65 letters; one or two of them in a call.
LongTag == [i \in 1..65 |-> 97]
TagInputs == { <<120>>, <<88>>, <<SP, 121, SP>>, <<122, 57>>, <<97, SP, 98>>, <<>>,
               <<195, 169>>, LongTag }
TagArgs == {<<t>> : t \in TagInputs} \cup {<<t, u>> : t, u \in TagInputs}

\* The texts of the TAGS.txt files a collection is loaded from.
TagTexts == { <<>>,
              <<121, NL, 120, NL>>,
              <<121, NL, 88, NL, 120, NL>>,
              <<97, SP, 98, NL, NL, SP, 122, 57, SP, NL>> }

\* A call of Add, Remove or List on the collection.
TagsAddCall(newTags) ==
    /\ collection' = TagsAdd(collection, newTags)
    /\ tagCall' = << [op |-> "add", args |-> newTags, result |-> <<>>] >>
    /\ UNCHANGED <<lockVars, fsVars, sumVars, poolVars, otherMarker>>

TagsRemoveCall(removeTags) ==
    /\ collection' = TagsRemove(collection, removeTags)
    /\ tagCall' = << [op |-> "remove", args |-> removeTags, result |-> <<>>] >>
    /\ UNCHANGED <<lockVars, fsVars, sumVars, poolVars, otherMarker>>

TagsListCall ==
    /\ LET l == TagsList(collection)
       IN  /\ collection' = l.Tags
           /\ tagCall' = << [op |-> "list", args |-> <<>>, result |-> l.sorted] >>
    /\ UNCHANGED <<lockVars, fsVars, sumVars, poolVars, otherMarker>>

(***************************************************************************)
(* The commands tag add and tag remove.                                    *)
(***************************************************************************)

\* handleTagAddCmd and handleTagRemoveCmd up to tag.Load(path): a missing
\* TAGS.txt is an empty tag list, any other read error ends the command.
TagLoad(a, op, tag) ==
    /\ BetweenCalls(a)
    /\ IF dotBundle = "file"
       THEN Return(a, Result(op, "io"))
       ELSE Goto(a, "tg_save", [NoLocal EXCEPT !.op = op, !.arg = tag,
                                   !.Tags = IF tags = <<>> THEN <<>> ELSE TagsLoad(tags[1])])
    /\ UNCHANGED <<marker, handle, fsVars, sumVars, poolVars, sideVars>>

TagAdd(a, tag) == TagLoad(a, "tag_add", tag)

TagRemove(a, tag) == TagLoad(a, "tag_remove", tag)

\* t.Add or t.Remove, t.Save(path) and the end of the command.
TagSave(a) ==
    /\ pc[a] = "tg_save"
    /\ LET changed == IF local[a].op = "tag_add"
                      THEN TagsAdd(local[a].Tags, <<local[a].arg>>)
                      ELSE TagsRemove(local[a].Tags, <<local[a].arg>>)
           sv == TagsSave(changed)
       IN  \E ok \in BOOLEAN :
             /\ tags' = WriteFile(tags, sv.text, ok /\ dotBundle = "dir")
             /\ Return(a, Result(local[a].op, IF ok /\ dotBundle = "dir" THEN "" ELSE "io"))
    /\ UNCHANGED <<marker, handle, tree, dotBundle, meta, manifest, state, sumVars, poolVars, sideVars>>

(***************************************************************************)
(* The command rename.                                                     *)
(***************************************************************************)

\* bundle.Load: .bundle must exist, and META.json, STATE.json and
\* SHA256SUM.txt must be readable; a missing TAGS.txt is accepted.
BundleLoad(d, m, st, mf) ==
    IF d \in {"none", "nopath"} THEN "notbundle"
    ELSE IF d = "file" \/ m = <<>> \/ st = <<>> \/ mf = <<>> THEN "io"
    ELSE ""

\* handleRenameCmd up to bundle.Load(path).
Rename(a, newTitle) ==
    /\ BetweenCalls(a)
    /\ LET err == BundleLoad(dotBundle, meta, state, manifest)
       IN  IF err # ""
           THEN Return(a, Result("rename", err))
           ELSE Goto(a, "rn_meta_load", [NoLocal EXCEPT !.op = "rename", !.title = newTitle])
    /\ UNCHANGED <<marker, handle, fsVars, sumVars, poolVars, sideVars>>

\* metadata.UpdateTitle: Load(bundlePath).
UpdateTitleLoad(a) ==
    /\ pc[a] = "rn_meta_load"
    /\ IF meta = <<>>
       THEN Return(a, Result("rename", "io"))
       ELSE Goto(a, "rn_meta_save", [local[a] EXCEPT !.metadata = meta[1]])
    /\ UNCHANGED <<marker, handle, fsVars, sumVars, poolVars, sideVars>>

\* A plausible slip: the new title is saved in a fresh Metadata value.
UpdateTitleSaveFresh(a) ==
    /\ pc[a] = "rn_meta_save"
    /\ \E ok \in BOOLEAN :
          /\ meta' = WriteFile(meta, [ZeroMetadata EXCEPT !.Title = local[a].title], ok)
          /\ Return(a, Result("rename", IF ok THEN "" ELSE "io"))
    /\ UNCHANGED <<marker, handle, tree, dotBundle, manifest, state, tags, sumVars, poolVars, sideVars>>

\* metadata.UpdateTitle: meta.Title = newTitle and meta.Save(bundlePath).
UpdateTitleSave(a) ==
    /\ pc[a] = "rn_meta_save"
    /\ \E ok \in BOOLEAN :
          /\ meta' = WriteFile(meta, [local[a].metadata EXCEPT !.Title = local[a].title], ok)
          /\ Return(a, Result("rename", IF ok THEN "" ELSE "io"))
    /\ UNCHANGED <<marker, handle, tree, dotBundle, manifest, state, tags, sumVars, poolVars, sideVars>>

(***************************************************************************)
(* Package pool: Import and ListBundles.                                   *)
(***************************************************************************)

\* What a path given to import, or a name under the pool root, can hold:
\* nothing, a plain file, or a directory with its files and, when dotBundle
\* is true, the files of its .bundle/ (<<>> when absent, <<content>> else).
EmptyDir == [kind |-> "dir", dotBundle |-> FALSE, meta |-> <<>>, manifest |-> <<>>,
             state |-> <<>>, tags |-> <<>>, lock |-> <<>>,
             files |-> [p \in Paths |-> NoFile]]
PlainFile == [EmptyDir EXCEPT !.kind = "file"]
Nothing == [EmptyDir EXCEPT !.kind = "none"]

\* The directory that bundle.Create leaves when it succeeds on the files t
\* with the given title.
CreatedBundle(t, title) ==
    LET cf == Compute(t)
    IN  [kind |-> "dir", dotBundle |-> TRUE,
         meta |-> << [Title |-> title,
                      BundleChecksum |-> ComputeBundleChecksum(Checksums(cf.Records)),
                      Author |-> Author,
                      CreatedAt |-> Now,
                      Version |-> 1] >>,
         manifest |-> << Save(cf.Records).text >>,
         state |-> << [Verified |-> TRUE, Replicas |-> <<>>, SizeBytes |-> cf.TotalSize] >>,
         tags |-> << <<>> >>,
         lock |-> <<>>,
         files |-> t]

\* The paths given to import.
SourcePaths == {"s1", "s2"}

\* The pool: root tells what is at p.Root ("none", "file" or "dir"), and
\* entries maps each name under p.Root to what it holds.
NoPool == [root |-> "none", entries |-> << >>]

\* What is at filepath.Join(p.Root, name).
PoolEntry(p, name) ==
    IF p.root = "dir" /\ name \in DOMAIN p.entries THEN p.entries[name] ELSE Nothing

\* The pool with e at filepath.Join(p.Root, name).
WithEntry(p, name, e) ==
    [p EXCEPT !.entries = [n \in (DOMAIN p.entries) \cup {name} |->
                               IF n = name THEN e ELSE p.entries[n]]]

\* metadata.Load(bundlePath): the content of .bundle/META.json, or the
\* error of os.ReadFile.
MetadataLoad(d) ==
    IF d.kind = "dir" /\ d.dotBundle /\ d.meta # <<>>
    THEN [err |-> "", meta |-> d.meta[1]]
    ELSE [err |-> "notexist", meta |-> ZeroMetadata]

\* A plausible slip: the check looks for a plain file only.
StatFindsFile(p, name) == PoolEntry(p, name).kind = "file"

\* os.Stat(destPath) returns no error.
StatFinds(p, name) == PoolEntry(p, name).kind # "none"

\* A plausible slip: the destination is created with os.Mkdir, which fails
\* when it exists.
MkdirDest(e) ==
    IF e.kind = "none" THEN [err |-> FALSE, dir |-> EmptyDir]
    ELSE [err |-> TRUE, dir |-> e]

\* os.MkdirAll(dst) in copyDir: an existing directory is left as it is.
MkdirAllDest(e) ==
    IF e.kind = "file" THEN [err |-> TRUE, dir |-> e]
    ELSE IF e.kind = "dir" THEN [err |-> FALSE, dir |-> e]
    ELSE [err |-> FALSE, dir |-> EmptyDir]

\* An entry that copyDir has still to copy: the directory .bundle, one of
\* its files, or a file of the bundle.
CopyEntry(part, path) == [part |-> part, path |-> path]

\* os.ReadDir(src) in copyDir: the entries by name, .bundle first.
ReadDir(d) ==
    LET names == WalkOrder(d.files)
    IN  (IF d.dotBundle THEN <<CopyEntry("dotbundle", <<>>)>> ELSE <<>>)
        \o [i \in 1..Len(names) |-> CopyEntry("file", names[i])]

\* os.ReadDir(src/.bundle), in the order of the names: .lock, META.json,
\* SHA256SUM.txt, STATE.json, TAGS.txt.
ReadDirDotBundle(d) ==
    SelectSeq(<<CopyEntry("lock", <<>>), CopyEntry("meta", <<>>), CopyEntry("manifest", <<>>),
                CopyEntry("state", <<>>), CopyEntry("tags", <<>>)>>,
              LAMBDA e : d[e.part] # <<>>)

\* copyDir and copyFile for one entry of the source directory src into the
\* destination dst; ok tells whether the destination file can be written.
\* The entries that a copied directory adds are put first.
CopyOne(src, dst, e, ok) ==
    IF e.part = "dotbundle"
    THEN IF src.kind = "dir" /\ src.dotBundle
         THEN [err |-> FALSE, dir |-> [dst EXCEPT !.dotBundle = TRUE],
               more |-> ReadDirDotBundle(src)]
         ELSE [err |-> TRUE, dir |-> dst, more |-> <<>>]
    ELSE IF e.part = "file"
    THEN IF src.kind = "dir" /\ src.files[e.path].kind = "file"
            /\ src.files[e.path].readable /\ dst.kind = "dir" /\ ok
         THEN [err |-> FALSE, dir |-> [dst EXCEPT !.files[e.path] = src.files[e.path]],
               more |-> <<>>]
         ELSE [err |-> TRUE, dir |-> dst, more |-> <<>>]
    ELSE IF src.kind = "dir" /\ src.dotBundle /\ src[e.part] # <<>> /\ dst.dotBundle /\ ok
         THEN [err |-> FALSE, dir |-> [dst EXCEPT ![e.part] = src[e.part]], more |-> <<>>]
         ELSE [err |-> TRUE, dir |-> dst, more |-> <<>>]

\* A plausible slip: in move mode the source is removed whether the copy
\* succeeded or not.
AfterCopyRemoving(failed, move) ==
    IF move THEN "im_remove" ELSE IF failed THEN "fail" ELSE "return"

\* Where Import goes on after copyDir: it returns the error of a failed
\* copy, removes the source when move is set, and returns otherwise.
AfterCopy(failed, move) ==
    IF failed THEN "fail" ELSE IF move THEN "im_remove" ELSE "return"

\* Pool.Import: the call and metadata.Load(bundlePath).
Import(a, bundlePath, move) ==
    /\ BetweenCalls(a)
    /\ LET l == MetadataLoad(sources[bundlePath])
           r == [Result("import", l.err) EXCEPT !.bundlePath = bundlePath, !.move = move]
       IN  IF l.err # ""
           THEN Return(a, r)
           ELSE Goto(a, "im_stat", [NoLocal EXCEPT !.op = "import",
                                                   !.bundlePath = bundlePath,
                                                   !.move = move,
                                                   !.metadata = l.meta])
    /\ UNCHANGED <<marker, handle, fsVars, sumVars, poolVars, sideVars>>

\* The result of the Import that actor a is in.
ImportResult(a, err) ==
    [Result("import", err) EXCEPT !.bundlePath = local[a].bundlePath,
                                  !.move = local[a].move]

\* The check that the destination does not exist yet.
ImportStat(a) ==
    /\ pc[a] = "im_stat"
    /\ IF StatFinds(pool, local[a].metadata.BundleChecksum)
       THEN Return(a, ImportResult(a, "duplicate"))
       ELSE Goto(a, "im_mkroot", local[a])
    /\ UNCHANGED <<marker, handle, fsVars, sumVars, poolVars, sideVars>>

\* os.MkdirAll(p.Root).
ImportMkdirRoot(a) ==
    /\ pc[a] = "im_mkroot"
    /\ IF pool.root = "file"
       THEN Return(a, ImportResult(a, "io")) /\ pool' = pool
       ELSE Goto(a, "im_copy_dir", local[a]) /\ pool' = [pool EXCEPT !.root = "dir"]
    /\ UNCHANGED <<marker, handle, fsVars, sumVars, sources, sideVars>>

\* copyDir(bundlePath, destPath) up to its loop: os.Stat(src),
\* os.MkdirAll(dst) and os.ReadDir(src).
ImportCopyDir(a) ==
    /\ pc[a] = "im_copy_dir"
    /\ LET src == sources[local[a].bundlePath]
           dest == local[a].metadata.BundleChecksum
           m == MkdirAllDest(PoolEntry(pool, dest))
       IN  IF src.kind # "dir" \/ pool.root # "dir"
           THEN Return(a, ImportResult(a, "io")) /\ pool' = pool
           ELSE IF m.err
           THEN Return(a, ImportResult(a, "io")) /\ pool' = pool
           ELSE /\ pool' = WithEntry(pool, dest, m.dir)
                /\ IF ReadDir(src) = <<>>
                   THEN IF AfterCopy(FALSE, local[a].move) = "im_remove"
                        THEN Goto(a, "im_remove", local[a])
                        ELSE Return(a, ImportResult(a, ""))
                   ELSE Goto(a, "im_copy", [local[a] EXCEPT !.entries = ReadDir(src)])
    /\ UNCHANGED <<marker, handle, fsVars, sumVars, sources, sideVars>>

\* One round of the loop of copyDir: the next entry is copied.
ImportCopy(a) ==
    /\ pc[a] = "im_copy"
    /\ \E ok \in BOOLEAN :
        LET src == sources[local[a].bundlePath]
            dest == local[a].metadata.BundleChecksum
            c == CopyOne(src, PoolEntry(pool, dest), Head(local[a].entries), ok)
            rest == c.more \o Tail(local[a].entries)
            next == AfterCopy(c.err, local[a].move)
        IN  IF c.err
            THEN /\ pool' = pool
                 /\ IF next = "im_remove"
                    THEN Goto(a, "im_remove", [local[a] EXCEPT !.entries = <<>>])
                    ELSE Return(a, ImportResult(a, "io"))
            ELSE /\ pool' = WithEntry(pool, dest, c.dir)
                 /\ IF rest # <<>>
                    THEN Goto(a, "im_copy", [local[a] EXCEPT !.entries = rest])
                    ELSE IF next = "im_remove"
                    THEN Goto(a, "im_remove", [local[a] EXCEPT !.entries = rest])
                    ELSE Return(a, ImportResult(a, ""))
    /\ UNCHANGED <<marker, handle, fsVars, sumVars, sources, sideVars>>

\* os.RemoveAll(bundlePath) in move mode, and the return of Import.
ImportRemove(a) ==
    /\ pc[a] = "im_remove"
    /\ \E ok \in BOOLEAN :
        IF ok
        THEN /\ sources' = [sources EXCEPT ![local[a].bundlePath] = Nothing]
             /\ Return(a, ImportResult(a, ""))
        ELSE /\ sources' = sources
             /\ Return(a, ImportResult(a, "io"))
    /\ UNCHANGED <<marker, handle, fsVars, sumVars, pool, sideVars>>

\* The number of bytes of a checksum string in the program.  The model
\* writes a SHA-256 digest, which has 64 hexadecimal digits, as the digits
\* of the bytes that were hashed; any other string is written as it is.
ChecksumLen(checksum) ==
    IF \A i \in 1..Len(checksum) :
          \/ (checksum[i] >= 48 /\ checksum[i] <= 57)
          \/ (checksum[i] >= 97 /\ checksum[i] <= 102)
    THEN 64
    ELSE Len(checksum)

\* The loop of ListBundles over the entries of the pool root, by name:
\* plain files and directories whose metadata does not load are skipped;
\* the slice meta.BundleChecksum[:12], an argument of the debug message,
\* panics when the checksum is shorter than 12 bytes.
RECURSIVE ListEntries(_, _, _)
ListEntries(p, names, bundles) ==
    IF names = <<>> THEN [err |-> "", bundles |-> bundles]
    ELSE LET entry == p.entries[Head(names)]
             l == MetadataLoad(entry)
         IN  IF entry.kind # "dir" THEN ListEntries(p, Tail(names), bundles)
             ELSE IF l.err # "" THEN ListEntries(p, Tail(names), bundles)
             ELSE IF ChecksumLen(l.meta.BundleChecksum) < 12
             THEN [err |-> "panic", bundles |-> <<>>]
             ELSE ListEntries(p, Tail(names), Append(bundles, l.meta))

\* The names under the pool root, as os.ReadDir returns them.
PoolNames(p) == WalkOrder([n \in DOMAIN p.entries |->
                              IF p.entries[n].kind = "none" THEN NoFile ELSE Directory])

\* Pool.ListBundles.
ListBundles(a) ==
    /\ BetweenCalls(a)
    /\ LET l == IF pool.root = "none" THEN [err |-> "", bundles |-> <<>>]
                ELSE IF pool.root = "file" THEN [err |-> "io", bundles |-> <<>>]
                ELSE ListEntries(pool, PoolNames(pool), <<>>)
       IN  Return(a, [Result("list", l.err) EXCEPT !.bundles = l.bundles])
    /\ UNCHANGED <<marker, handle, fsVars, sumVars, poolVars, sideVars>>

(***************************************************************************)
(* The exit status of the commands create and verify.                      *)
(***************************************************************************)

\* os.IsNotExist(err).
IsNotExist(err) == err = "notexist"

\* handleCreateCmd: the status the command ends with when bundle.Create
\* has returned r.
handleCreateCmd(r) ==
    IF r.err = "" THEN 0
    ELSE IF IsNotExist(r.err) THEN 1
    ELSE 2

\* handleVerifyCmd: the status the command ends with when bundle.Verify
\* has returned r.
handleVerifyCmd(r) ==
    IF r.err = "" THEN 0
    ELSE IF IsNotExist(r.err) THEN 1
    ELSE 2

(***************************************************************************)
(* The bundle checksum of a list of checksums and of its reorderings.      *)
(***************************************************************************)

\* The strings given to ComputeBundleChecksum: up to MaxHashLen of the
\* digits "0" and "a".
RECURSIVE StringsUpTo(_)
StringsUpTo(n) ==
    IF n = 0 THEN {<<>>}
    ELSE LET shorter == StringsUpTo(n - 1)
         IN  shorter \cup {Append(s, d) : s \in shorter, d \in {48, 97}}

HashStrings == StringsUpTo(MaxHashLen) \ {<<>>}

RECURSIVE SeqsUpTo(_, _)
SeqsUpTo(S, n) ==
    IF n = 0 THEN {<<>>}
    ELSE LET shorter == SeqsUpTo(S, n - 1)
         IN  shorter \cup {Append(s, x) : s \in shorter, x \in S}

\* checksum.ComputeBundleChecksum(hashesIn).
Aggregate ==
    /\ idOrig = <<>>
    /\ idOrig' = <<ComputeBundleChecksum(hashesIn)>>
    /\ UNCHANGED <<hashesIn, hashesPerm, idPerm, lockVars, fsVars, poolVars, sideVars>>

\* The caller passes the checksums in another order: two neighbours swap.
Reorder(i) ==
    /\ i < Len(hashesPerm)
    /\ hashesPerm' = [hashesPerm EXCEPT ![i] = hashesPerm[i + 1],
                                        ![i + 1] = hashesPerm[i]]
    /\ idPerm' = <<>>
    /\ UNCHANGED <<hashesIn, idOrig, lockVars, fsVars, poolVars, sideVars>>

\* checksum.ComputeBundleChecksum(hashesPerm).
AggregateReordered ==
    /\ idPerm = <<>>
    /\ idPerm' = <<ComputeBundleChecksum(hashesPerm)>>
    /\ UNCHANGED <<hashesIn, hashesPerm, idOrig, lockVars, fsVars, poolVars, sideVars>>

(***************************************************************************)
(* Specifications.                                                         *)
(***************************************************************************)

\* The state common to all specifications: no call is running, no lock
\* is held and the directory is not a bundle yet.
InitCalls ==
    /\ marker = <<>>
    /\ pc = [a \in Actors |-> "idle"]
    /\ handle = [a \in Actors |-> "none"]
    /\ res = [a \in Actors |-> NoResult]
    /\ local = [a \in Actors |-> NoLocal]
    /\ meta = <<>>
    /\ manifest = <<>>
    /\ state = <<>>
    /\ tags = <<>>
    /\ otherMarker = <<>>
    /\ collection = <<>>
    /\ tagCall = <<>>

InitSums ==
    /\ hashesIn = <<>>
    /\ hashesPerm = <<>>
    /\ idOrig = <<>>
    /\ idPerm = <<>>
    /\ sources = [s \in SourcePaths |-> Nothing]
    /\ pool = NoPool

\* The directories of the concurrent specification: the file "a" alone,
\* readable or not.
LockTrees == { [p \in Paths |-> IF p = PathA THEN f ELSE NoFile] :
                 f \in {RegularFile(<<104>>), UnreadableFile} }

\* The steps of a running bundle.Create or lock.AcquireLock of actor a.
CreateStep(a) ==
    \/ AcquireOpen(a)
    \/ CreateMkdir(a)
    \/ CreateCompute(a)
    \/ CreateSaveMeta(a)
    \/ CreateSaveFiles(a)
    \/ CreateSaveState(a)
    \/ CreateSaveTags(a)
    \/ CreateRelease(a)

\* The steps of the running commands that take no lock.
CommandStep(a) ==
    \/ VerifyCheck(a)
    \/ VerifyStateLoad(a)
    \/ VerifyStateSave(a)
    \/ TagSave(a)
    \/ UpdateTitleLoad(a)
    \/ UpdateTitleSave(a)

\* Any number of actors acquire, release and create on one path: a
\* directory whose files do not change, with no .bundle, with the
\* directory .bundle or with a regular file of that name, or a path at
\* which nothing exists.
Init ==
    /\ InitCalls
    /\ InitSums
    /\ \/ dotBundle \in {"none", "dir", "file"} /\ tree \in LockTrees
       \/ dotBundle = "nopath" /\ tree = [p \in Paths |-> NoFile]

Next ==
    \E a \in Actors :
        \/ AcquireLock(a)
        \/ Release(a)
        \/ \E title \in Titles : Create(a, title)
        \/ Forget(a)
        \/ CreateStep(a)

Spec == Init /\ [][Next]_vars

\* Somebody changes a file of the directory: writes it, makes it
\* unreadable or removes it.
EditTree(p, f) ==
    /\ tree[p] # f
    /\ tree' = [tree EXCEPT ![p] = f]
    /\ UNCHANGED <<lockVars, dotBundle, meta, manifest, state, tags, sumVars, poolVars, sideVars>>

\* Any directory, a bundle or not, on which no call has been made yet.
InitAnyTree ==
    /\ InitCalls
    /\ InitSums
    /\ dotBundle \in {"none", "dir"}
    /\ tree \in Trees

NextCommands ==
    \/ \E title \in Titles : Create(1, title)
    \/ Verify(1)
    \/ \E title \in Titles : Rename(1, title)
    \/ \E tag \in TagNames : TagAdd(1, tag)
    \/ \E tag \in TagNames : TagRemove(1, tag)
    \/ Forget(1)
    \/ CreateStep(1)
    \/ CommandStep(1)
    \/ \E p \in Paths : \E f \in FileStates(p) : EditTree(p, f)

\* One actor runs the commands one after the other on a directory whose
\* files change in between and meanwhile.
SpecCommands == InitAnyTree /\ [][NextCommands]_vars

\* ComputeBundleChecksum applied to a list of checksums and to reorderings
\* of it.
InitChecksum ==
    /\ InitCalls
    /\ dotBundle = "none"
    /\ tree = [p \in Paths |-> NoFile]
    /\ hashesIn \in SeqsUpTo(HashStrings, MaxHashes)
    /\ hashesPerm = hashesIn
    /\ idOrig = <<>>
    /\ idPerm = <<>>
    /\ sources = [s \in SourcePaths |-> Nothing]
    /\ pool = NoPool

NextChecksum ==
    \/ Aggregate
    \/ \E i \in 1..MaxHashes : Reorder(i)
    \/ AggregateReordered

SpecChecksum == InitChecksum /\ [][NextChecksum]_vars


\* Every actor calls AcquireLock once; when all calls have returned the
\* winner releases, and then one actor calls AcquireLock again.
FirstAcquire(a) ==
    /\ pc[a] = "idle"
    /\ AcquireLock(a)

ReleaseAfterRace(a) ==
    /\ \A b \in Actors : pc[b] = "done" /\ res[b].op = "acquire"
    /\ Release(a)

AcquireAfterRelease(a) ==
    /\ \A b \in Actors : pc[b] = "done" /\ res[b].op = "acquire" /\ handle[b] # "live"
    /\ \E b \in Actors : handle[b] = "released"
    /\ AcquireMkdir(a, "reacquire", <<>>)

NextRace ==
    \E a \in Actors :
        \/ FirstAcquire(a)
        \/ AcquireOpen(a)
        \/ ReleaseAfterRace(a)
        \/ AcquireAfterRelease(a)

SpecRace == InitAnyTree /\ [][NextRace]_vars

\* The files of the directories that are scanned: "a", "b c",
\* "my.bundle.txt", and "s/.bundle/f", a file of a bundle nested in the
\* subdirectory "s".
PathMy == <<109, 121, DOT, 98, 117, 110, 100, 108, 101, DOT, 116, 120, 116>>
PathNested == <<115, SLASH>> \o DotBundleName \o <<SLASH, 102>>
ScanPaths == { PathA, PathBC, PathMy, PathNested }

ScanFileStates(p) ==
    IF p = PathMy
    THEN {RegularFile(c) : c \in Contents} \cup {NoFile}
    ELSE {RegularFile(<<104>>), NoFile}

ScanTrees == {t \in [ScanPaths -> UNION {ScanFileStates(p) : p \in ScanPaths}] :
                 \A p \in ScanPaths : t[p] \in ScanFileStates(p)}

InitScan ==
    /\ InitCalls
    /\ InitSums
    /\ dotBundle \in {"none", "dir"}
    /\ tree \in ScanTrees

NextScan ==
    \/ \E title \in Titles : Create(1, title)
    \/ CreateStep(1)
    \/ Forget(1)

\* One actor runs Create again and again on a directory whose files do
\* not change.
SpecScan == InitScan /\ [][NextScan]_vars

\* A directory with the readable file "a", a bundle or not, on which no
\* call has been made yet.
InitOneFile ==
    /\ InitCalls
    /\ InitSums
    /\ dotBundle \in {"none", "dir"}
    /\ tree = [p \in Paths |-> IF p = PathA THEN RegularFile(<<104>>) ELSE NoFile]

\* The actors acquire, release and create on BundlePath and acquire and
\* release the lock of the bundle at OtherPath.
NextTwoBundles ==
    \E a \in Actors :
        \/ AcquireLock(a)
        \/ Release(a)
        \/ Create(a, <<84>>)
        \/ CreateStep(a)
        \/ AcquireLockOther(a)
        \/ ReleaseOther(a)
        \/ Forget(a)

SpecTwoBundles == InitOneFile /\ [][NextTwoBundles]_vars

\* A tag collection, empty or loaded from a TAGS.txt, on which Add, Remove
\* and List are called.
InitTags ==
    /\ InitSums
    /\ marker = <<>>
    /\ pc = [a \in Actors |-> "idle"]
    /\ handle = [a \in Actors |-> "none"]
    /\ res = [a \in Actors |-> NoResult]
    /\ local = [a \in Actors |-> NoLocal]
    /\ meta = <<>> /\ manifest = <<>> /\ state = <<>> /\ tags = <<>>
    /\ otherMarker = <<>>
    /\ dotBundle = "none"
    /\ tree = [p \in Paths |-> NoFile]
    /\ collection \in {TagsLoad(text) : text \in TagTexts}
    /\ tagCall = <<>>

NextTags ==
    \/ \E newTags \in TagArgs : TagsAddCall(newTags)
    \/ \E removeTags \in TagArgs : TagsRemoveCall(removeTags)
    \/ TagsListCall

SpecTags == InitTags /\ [][NextTags]_vars

\* The steps of a running Verify.
VerifyStep(a) ==
    \/ VerifyCheck(a)
    \/ VerifyStateLoad(a)
    \/ VerifyStateSave(a)

\* The actors acquire, release, create and verify on one path.
NextReaders ==
    \E a \in Actors :
        \/ AcquireLock(a)
        \/ Release(a)
        \/ Create(a, <<84>>)
        \/ CreateStep(a)
        \/ Verify(a)
        \/ VerifyStep(a)
        \/ Forget(a)

SpecReaders == InitOneFile /\ [][NextReaders]_vars

\* The actors acquire and release the lock, and release handles they have
\* released before.
NextRelease ==
    \E a \in Actors :
        \/ AcquireLock(a)
        \/ AcquireOpen(a)
        \/ Release(a)
        \/ ReleaseReleased(a)
        \/ Forget(a)

SpecRelease == InitOneFile /\ [][NextRelease]_vars

\* One actor creates, verifies, tags and records replicas, one call after
\* the other, on a directory whose file "a" changes in between and
\* meanwhile.
NextState ==
    \/ Create(1, <<84>>)
    \/ CreateStep(1)
    \/ Verify(1)
    \/ VerifyStep(1)
    \/ \E tag \in TagNames : TagAdd(1, tag)
    \/ TagSave(1)
    \/ \E uri \in ReplicaURIs : RecordReplica(1, uri)
    \/ \E c \in Contents : EditTree(PathA, RegularFile(c))
    \/ Forget(1)

SpecState == InitOneFile /\ [][NextState]_vars

\* The directory after a first bundle.Create on the file "a": a bundle with
\* its four files, no tags and no replicas yet.
InitBundle ==
    /\ InitSums
    /\ marker = <<>>
    /\ pc = [a \in Actors |-> "idle"]
    /\ handle = [a \in Actors |-> "none"]
    /\ res = [a \in Actors |-> NoResult]
    /\ local = [a \in Actors |-> NoLocal]
    /\ otherMarker = <<>>
    /\ collection = <<>>
    /\ tagCall = <<>>
    /\ dotBundle = "dir"
    /\ tree = [p \in Paths |-> IF p = PathA THEN RegularFile(<<104>>) ELSE NoFile]
    /\ LET b == CreatedBundle(tree, <<84>>)
       IN  /\ meta = b.meta
           /\ manifest = b.manifest
           /\ state = b.state
           /\ tags = b.tags

\* The calls of NextState on a directory that is a bundle from the start.
SpecRecreate == InitBundle /\ [][NextState]_vars

\* The directories with a symbolic link: the regular files "a" and "b c"
\* and the link "l", to a file with the content "hi" or to nothing.
PathLink == <<108>>
LinkPaths == { PathA, PathBC, PathLink }

LinkFileStates(p) ==
    IF p = PathLink
    THEN {Symlink(<<104, 105>>), DanglingSymlink, NoFile}
    ELSE {RegularFile(<<104>>), NoFile}

LinkTrees == {t \in [LinkPaths -> UNION {LinkFileStates(p) : p \in LinkPaths}] :
                 \A p \in LinkPaths : t[p] \in LinkFileStates(p)}

InitLinks ==
    /\ InitCalls
    /\ InitSums
    /\ dotBundle \in {"none", "dir"}
    /\ tree \in LinkTrees

\* One actor runs Create again and again on a directory that may hold a
\* symbolic link.
SpecLinks == InitLinks /\ [][NextScan]_vars

\* The directories given to import: a bundle of the file "a" as Create
\* left it, the same with "a" changed or made unreadable since, a
\* directory that is no bundle, and a directory whose META.json was written
\* by hand with the checksum "x", and the bundle with the lock marker of a
\* Create that runs on it; and a bundle with the same file and
\* another title, or with another content.
TreeOfA(f) == [p \in Paths |-> IF p = PathA THEN f ELSE NoFile]

FirstSources ==
    LET b == CreatedBundle(TreeOfA(RegularFile(<<104>>)), <<84>>)
    IN  { b,
          [b EXCEPT !.files = TreeOfA(RegularFile(<<104, 105>>))],
          [b EXCEPT !.files = TreeOfA(UnreadableFile)],
          [b EXCEPT !.lock = <<2>>],
          [EmptyDir EXCEPT !.files = TreeOfA(RegularFile(<<104>>))],
          [EmptyDir EXCEPT !.dotBundle = TRUE,
                           !.meta = << [ZeroMetadata EXCEPT !.Title = <<84>>,
                                                            !.BundleChecksum = <<120>>] >>] }

SecondSources ==
    { CreatedBundle(TreeOfA(RegularFile(c)), <<78>>) : c \in Contents }

\* The pools: no directory at the root yet, a plain file at the root, or
\* a root that holds the plain file "f" and the empty directory "n".
Pools ==
    { NoPool,
      [NoPool EXCEPT !.root = "file"],
      [root |-> "dir", entries |-> (<<102>> :> PlainFile) @@ (<<110>> :> EmptyDir)] }

\* The steps of a running Pool.Import of actor a.
ImportStep(a) ==
    \/ ImportStat(a)
    \/ ImportMkdirRoot(a)
    \/ ImportCopyDir(a)
    \/ ImportCopy(a)
    \/ ImportRemove(a)

InitPool ==
    /\ InitCalls
    /\ dotBundle = "none"
    /\ tree = [p \in Paths |-> NoFile]
    /\ hashesIn = <<>>
    /\ hashesPerm = <<>>
    /\ idOrig = <<>>
    /\ idPerm = <<>>
    /\ \E f \in FirstSources, g \in SecondSources :
          sources = [s \in SourcePaths |-> IF s = "s1" THEN f ELSE g]
    /\ pool \in Pools

NextPool ==
    \/ \E bundlePath \in SourcePaths, move \in BOOLEAN : Import(1, bundlePath, move)
    \/ ImportStep(1)
    \/ ListBundles(1)
    \/ Forget(1)

\* One actor imports the two directories into one pool and lists the pool,
\* one call after the other.
SpecPool == InitPool /\ [][NextPool]_vars

\* Every actor calls Import once, and the calls run at the same time.
FirstImport(a, bundlePath, move) ==
    /\ pc[a] = "idle"
    /\ Import(a, bundlePath, move)

NextImportRace ==
    \E a \in Actors :
        \/ \E bundlePath \in SourcePaths, move \in BOOLEAN : FirstImport(a, bundlePath, move)
        \/ ImportStep(a)

\* The races start with a bundle at each path, and a pool that has no
\* directory yet or holds entries that are no bundles.
InitImportRace ==
    /\ InitCalls
    /\ hashesIn = <<>>
    /\ hashesPerm = <<>>
    /\ idOrig = <<>>
    /\ idPerm = <<>>
    /\ dotBundle = "none"
    /\ tree = [p \in Paths |-> NoFile]
    /\ \E g \in SecondSources :
          sources = [s \in SourcePaths |->
                          IF s = "s1"
                          THEN CreatedBundle(TreeOfA(RegularFile(<<104>>)), <<84>>)
                          ELSE g]
    /\ pool \in {q \in Pools : q.root # "file"}

SpecImportRace == InitImportRace /\ [][NextImportRace]_vars

(***************************************************************************)
(* Properties.                                                             *)
(***************************************************************************)

\* The labels of Create between its successful AcquireLock and the end of
\* its deferred Release.
CreateLocked == {"cr_mkdir", "cr_compute", "cr_save_meta", "cr_save_files",
                 "cr_save_state", "cr_save_tags", "cr_release"}

\* Actor a holds the lock: through a handle it has not released, or inside
\* Create.
Holds(a) == handle[a] = "live" \/ pc[a] \in CreateLocked

\* C1: when all actors have called AcquireLock on a path without marker and
\* all calls have returned, exactly one call has returned a handle and every
\* other one the lock error; the AcquireLock called after the winner's
\* Release returns a handle.
LockExclusivity ==
    /\ (\A a \in Actors : pc[a] = "done" /\ res[a].op = "acquire")
          => /\ Cardinality({a \in Actors : res[a].err = "" /\ handle[a] # "none"}) = 1
             /\ \A a \in Actors : res[a].err = "" \/ (res[a].err = "locked" /\ handle[a] = "none")
    /\ \A a \in Actors :
          (pc[a] = "done" /\ res[a].op = "reacquire")
             => (res[a].err = "" /\ handle[a] = "live" /\ marker = <<a>>
                 /\ \A b \in Actors \ {a} : handle[b] # "live")

\* An actor that lost the race has acquired the lock after the winner's
\* Release.
LockExclusivityWitness ==
    \E a, b \in Actors :
        /\ a # b
        /\ pc[a] = "done" /\ res[a].op = "reacquire" /\ res[a].err = ""
        /\ handle[b] = "released"

\* C2: at most one actor holds the lock, and the marker names it.
AtMostOneHolder ==
    /\ Cardinality({a \in Actors : Holds(a)}) <= 1
    /\ \A a \in Actors : Holds(a) => marker = <<a>>

\* One actor is inside Create, past the scan, and the Create of another
\* has been refused.
AtMostOneHolderWitness ==
    \E a, b \in Actors :
        /\ a # b
        /\ pc[a] = "cr_save_files"
        /\ pc[b] = "done" /\ res[b].op = "create" /\ res[b].err = "locked"

\* C3: a step that changes META.json, SHA256SUM.txt, STATE.json or TAGS.txt
\* is a step of an actor whose marker is in place.
WritesOnlyUnderLock ==
    [][\A a \in Actors :
          (pc'[a] # pc[a] /\ <<meta, manifest, state, tags>>' # <<meta, manifest, state, tags>>)
             => marker = <<a>>]_vars

\* C4: a marker names an actor that holds the lock, so that no Create that
\* has returned has left its marker behind.
CreateAlwaysReleases ==
    /\ \A a \in Actors : marker = <<a>> => Holds(a)
    /\ \A a \in Actors :
          (pc[a] = "done" /\ res[a].op = "create" /\ res[a].err # "locked") => marker # <<a>>

\* A Create has failed after it acquired the lock, and the marker is gone.
CreateAlwaysReleasesWitness ==
    \E a \in Actors :
        /\ pc[a] = "done" /\ res[a].op = "create" /\ res[a].err = "io"
        /\ marker = <<>>

\* C5: the exclusive create of AcquireLock on an existing marker returns
\* the lock error and changes neither the marker nor any handle nor any
\* file of the bundle.
AcquireHeldChangesNothing ==
    [][\A a \in Actors :
          (pc[a] = "acq_open" /\ marker # <<>> /\ pc'[a] # pc[a])
             => /\ pc'[a] = "done"
                /\ res'[a].err = "locked"
                /\ marker' = marker
                /\ handle' = handle
                /\ fsVars' = fsVars
                /\ \A b \in Actors : Holds(b)' = Holds(b)]_vars

\* The holder itself has called AcquireLock again and got the lock error.
AcquireHeldChangesNothingWitness ==
    \E a \in Actors :
        /\ handle[a] = "live"
        /\ marker = <<a>>
        /\ pc[a] = "done" /\ res[a].op = "acquire" /\ res[a].err = "locked"

\* C6: a call of AcquireLock, direct or from Create, tries the exclusive
\* create once: none before the attempt, one after it, never a second.
SingleAttempt ==
    \A a \in Actors :
        /\ local[a].attempts <= 1
        /\ pc[a] = "acq_open" => local[a].attempts = 0
        /\ pc[a] \in CreateLocked => local[a].attempts = 1

\* An AcquireLock has returned the lock error and the marker is gone since.
SingleAttemptWitness ==
    \E a \in Actors :
        /\ pc[a] = "done" /\ res[a].err = "locked"
        /\ marker = <<>>
        /\ \A b \in Actors : ~Holds(b)

\* C7: the bundle checksum of a list of checksums and the bundle checksum
\* of any reordering of the list are the same.
ReorderingKeepsIdentity ==
    (idOrig # <<>> /\ idPerm # <<>>) => idOrig = idPerm

\* Both checksums are computed, of lists in different orders.
ReorderingKeepsIdentityWitness ==
    /\ idOrig # <<>>
    /\ idPerm # <<>>
    /\ hashesPerm # hashesIn

\* s is before or equal to t in byte order.
ByteOrderLeq(s, t) ==
    \/ Len(s) <= Len(t) /\ \A i \in 1..Len(s) : s[i] = t[i]
    \/ \E k \in 1..Len(s) :
          /\ k <= Len(t)
          /\ \A i \in 1..(k - 1) : s[i] = t[i]
          /\ s[k] < t[k]

\* The arrangement of all the strings of the list, duplicates included,
\* that is ascending in byte order.
ReferenceSorted(hashes) ==
    LET n == Len(hashes)
        arrangements == {[i \in 1..n |-> hashes[p[i]]] :
                            p \in {q \in [1..n -> 1..n] :
                                      \A i, j \in 1..n : i # j => q[i] # q[j]}}
    IN  CHOOSE a \in arrangements : \A i \in 1..(n - 1) : ByteOrderLeq(a[i], a[i + 1])

\* The strings with one newline between any two of them.
RECURSIVE ReferenceJoined(_)
ReferenceJoined(ss) ==
    IF Len(ss) = 0 THEN <<>>
    ELSE IF Len(ss) = 1 THEN ss[1]
    ELSE ReferenceJoined(SubSeq(ss, 1, Len(ss) - 1)) \o <<NL>> \o ss[Len(ss)]

ReferenceIdentity(hashes) ==
    IF hashes = <<>> THEN EncodeToString(Sum256(<<>>))
    ELSE EncodeToString(Sum256(ReferenceJoined(ReferenceSorted(hashes))))

\* C8: the bundle checksum is the hexadecimal digest of the checksums sorted
\* in byte order, duplicates kept, and joined by single newlines; of no
\* checksum it is the digest of the empty string.
AggregateIsReference ==
    idOrig # <<>> => idOrig[1] = ReferenceIdentity(hashesIn)

\* The checksum of a list that is out of order and holds a string twice.
AggregateIsReferenceWitness ==
    /\ idOrig # <<>>
    /\ \E i, j \in 1..Len(hashesIn) : i # j /\ hashesIn[i] = hashesIn[j]
    /\ \E i \in 1..(Len(hashesIn) - 1) : StringLess(hashesIn[i + 1], hashesIn[i])

\* The elements of a sequence.
Elements(seq) == {seq[i] : i \in 1..Len(seq)}

\* The file of the record is missing, or its digest is not the recorded one.
MissingOrChanged(record, t) ==
    LET f == FileAt(t, record.FilePath)
    IN  \/ ~Exists(f)
        \/ EncodeToString(Sum256(f.data)) # record.Checksum

\* The file of the record exists and cannot be read.
CannotBeRead(record, t) ==
    LET f == FileAt(t, record.FilePath)
    IN  Exists(f) /\ ~(f.kind = "file" /\ f.readable)

ExpectedCorrupted(records, t) ==
    {records[i].FilePath : i \in {j \in 1..Len(records) : MissingOrChanged(records[j], t)}}

ManifestRoundTrip ==
    [][\A a \in Actors :
          (pc[a] = "cr_save_files" /\ pc'[a] = "cr_save_state")
             => Load(manifest'[1]) = local'[a].Records]_vars

\* The file with the relative path rel is inside a directory named
\* exactly ".bundle".
InsideDotBundle(rel) ==
    \/ HasPrefix(rel, DotBundleName \o <<SLASH>>)
    \/ Contains(rel, <<SLASH>> \o DotBundleName \o <<SLASH>>)

\* C11: the scan of Create records every regular file of the directory
\* that is not inside a directory named exactly ".bundle", and no other:
\* a file whose name holds ".bundle" ("my.bundle.txt") is recorded.
ScanRecordsEveryFile ==
    [][\A a \in Actors :
          (pc[a] = "cr_compute" /\ pc'[a] = "cr_save_meta")
             => {local'[a].Records[i].FilePath : i \in 1..Len(local'[a].Records)}
                   = {p \in DOMAIN tree : tree[p].kind = "file" /\ ~InsideDotBundle(p)}]_vars

\* C12: on a directory whose files do not change, a Create that writes
\* SHA256SUM.txt over the one of an earlier Create writes the same bytes,
\* and the BundleChecksum it writes to META.json is the one written before.
CreateTwiceSameManifest ==
    [][/\ (manifest # <<>> /\ manifest' # <<>>) => manifest' = manifest
       /\ (meta # <<>> /\ meta' # <<>>)
             => meta'[1].BundleChecksum = meta[1].BundleChecksum]_vars

\* A second Create has written SHA256SUM.txt, with two records, after a
\* first Create went through all its saves, with another title.
CreateTwiceSameManifestWitness ==
    \E a \in Actors :
        /\ pc[a] = "cr_save_state"
        /\ tags # <<>>
        /\ state # <<>>
        /\ manifest # <<>>
        /\ Len(local[a].Records) = 2
        /\ meta # <<>>
        /\ meta[1].Title = local[a].title

\* C18: the create command whose bundle.Create returned the lock error
\* ends with status 1, and with status 2 when Create returned an I/O error.
LockedCreateIsUserError ==
    \A a \in Actors :
        (pc[a] = "done" /\ res[a].op = "create")
           => /\ res[a].err = "locked" => handleCreateCmd(res[a]) = 1
              /\ res[a].err = "io" => handleCreateCmd(res[a]) = 2

\* C19: the verify command ends with status 0 only when Verify found every
\* recorded checksum to match, with status 1 when Verify returned a
\* corrupted or missing file, and with status 2 on an I/O error.
VerifyStatusTellsCorruption ==
    \A a \in Actors :
        (pc[a] = "done" /\ res[a].op = "verify")
           => /\ handleVerifyCmd(res[a]) = 0 => (res[a].err = "" /\ res[a].corrupted = <<>>)
              /\ (res[a].err = "" /\ res[a].corrupted # <<>>) => handleVerifyCmd(res[a]) = 1
              /\ res[a].err = "io" => handleVerifyCmd(res[a]) = 2

\* C20: a step of the create command on a path at which nothing exists
\* ends the command with status 1 and creates neither the directory nor
\* .bundle nor the lock marker.
CreateOnMissingPathCreatesNothing ==
    [][\A a \in Actors :
          (dotBundle = "nopath" /\ pc'[a] # pc[a]
             /\ (local'[a].op = "create" \/ res'[a].op = "create"))
             => /\ pc'[a] = "done"
                /\ handleCreateCmd(res'[a]) = 1
                /\ dotBundle' = "nopath"
                /\ marker' = <<>>]_vars

\* The directories under the pool root whose META.json names the identity.
EntriesOf(p, identity) ==
    {n \in DOMAIN p.entries :
        /\ p.entries[n].kind = "dir"
        /\ p.entries[n].meta # <<>>
        /\ p.entries[n].meta[1].BundleChecksum = identity}

\* C13: an import that finds the directory of its identity under the pool
\* root returns the duplicate error and changes no file of the pool or of
\* the source; an import that succeeds leaves that directory in place; no
\* entry of the pool goes away; and no two entries hold the same identity.
ImportDeduplicates ==
    [][\A a \in Actors :
          /\ (pc[a] = "im_stat" /\ pc'[a] # pc[a]
                /\ PoolEntry(pool, local[a].metadata.BundleChecksum).kind # "none")
                => /\ pc'[a] = "done"
                   /\ res'[a].err = "duplicate"
                   /\ pool' = pool
                   /\ sources' = sources
          /\ (res'[a] # res[a] /\ res'[a].op = "import" /\ res'[a].err = "")
                => PoolEntry(pool', local[a].metadata.BundleChecksum).kind = "dir"
          /\ \A n \in DOMAIN pool.entries :
                n \in DOMAIN pool'.entries /\ pool'.entries[n].kind = pool.entries[n].kind
          /\ \A n \in DOMAIN pool'.entries :
                pool'.entries[n].meta # <<>>
                   => EntriesOf(pool', pool'.entries[n].meta[1].BundleChecksum) = {n}]_vars

\* The import of "s2" has returned the duplicate error: the pool holds the
\* whole bundle of the same identity that was imported from "s1", under
\* the title of "s1".
ImportDeduplicatesWitness ==
    \E a \in Actors :
        /\ pc[a] = "done" /\ res[a].op = "import" /\ res[a].err = "duplicate"
        /\ res[a].bundlePath = "s2"
        /\ sources["s2"].meta # <<>>
        /\ LET e == PoolEntry(pool, sources["s2"].meta[1].BundleChecksum)
           IN  /\ e.meta # <<>>
               /\ e.meta[1].Title # sources["s2"].meta[1].Title
               /\ e.tags # <<>>
               /\ e.files[PathA].kind = "file"

\* C14: an import that has passed the check of the destination never
\* returns the duplicate error, and when it finds at copyDir that another
\* import has created the destination in between, it goes on to copy into
\* it.
ImportRaceBothCopy ==
    [][\A a \in Actors :
          /\ (pc[a] \in {"im_mkroot", "im_copy_dir", "im_copy", "im_remove"}
                /\ pc'[a] = "done")
                => res'[a].err # "duplicate"
          /\ (pc[a] = "im_copy_dir" /\ pc'[a] # pc[a]
                /\ sources[local[a].bundlePath].kind = "dir"
                /\ PoolEntry(pool, local[a].metadata.BundleChecksum).kind = "dir")
                => ~(pc'[a] = "done" /\ res'[a].err # "")]_vars

\* The imports of "s1" and of "s2", which hold the same identity, have both
\* returned success, and the pool holds one entry of that identity.
ImportRaceBothCopyWitness ==
    \E a, b \in Actors :
        /\ pc[a] = "done" /\ res[a].op = "import" /\ res[a].err = ""
        /\ res[a].bundlePath = "s1" /\ ~res[a].move
        /\ pc[b] = "done" /\ res[b].op = "import" /\ res[b].err = ""
        /\ res[b].bundlePath = "s2" /\ ~res[b].move
        /\ sources["s1"].meta[1].BundleChecksum = sources["s2"].meta[1].BundleChecksum
        /\ Cardinality(EntriesOf(pool, sources["s1"].meta[1].BundleChecksum)) = 1

\* The destination holds every file of the source, with the same content.
Copied(src, dst) ==
    /\ dst.kind = "dir"
    /\ dst.dotBundle = src.dotBundle
    /\ dst.meta = src.meta
    /\ dst.manifest = src.manifest
    /\ dst.state = src.state
    /\ dst.tags = src.tags
    /\ \A p \in Paths : src.files[p].kind = "file" => dst.files[p] = src.files[p]

\* C15: a step of import changes the source only when it is the removal,
\* in an import with move set; and import comes to the removal only with
\* move set and when every file of the source has been copied.
SourceRemovedOnlyAfterFullCopy ==
    [][\A a \in Actors :
          /\ (sources' # sources /\ pc'[a] # pc[a])
                => /\ pc[a] = "im_remove"
                   /\ local[a].move
                   /\ \A s \in SourcePaths \ {local[a].bundlePath} : sources'[s] = sources[s]
          /\ (pc'[a] = "im_remove" /\ pc[a] # "im_remove")
                => /\ local[a].move
                   /\ Copied(sources[local[a].bundlePath],
                             PoolEntry(pool', local[a].metadata.BundleChecksum))]_vars

\* An import with move set has failed after it copied .bundle/ and before
\* it copied the file "a", and the source is as it was.
SourceRemovedOnlyAfterFullCopyWitness ==
    \E a \in Actors :
        /\ pc[a] = "done" /\ res[a].op = "import" /\ res[a].err = "io" /\ res[a].move
        /\ sources[res[a].bundlePath] \in FirstSources \cup SecondSources
        /\ sources[res[a].bundlePath].meta # <<>>
        /\ LET e == PoolEntry(pool, sources[res[a].bundlePath].meta[1].BundleChecksum)
           IN  /\ e.kind = "dir"
               /\ e.tags # <<>>
               /\ e.files[PathA].kind = "none"

\* The files of the directory are those its SHA256SUM.txt records.
MatchesManifest(d) ==
    /\ d.kind = "dir"
    /\ d.manifest # <<>>
    /\ VerifyFiles(Load(d.manifest[1]), d.files) = [err |-> FALSE, corrupted |-> <<>>]

\* C16: when import returns success, the files of the destination match
\* the manifest of the destination.
ImportSuccessVerified ==
    [][\A a \in Actors :
          (res'[a] # res[a] /\ res'[a].op = "import" /\ res'[a].err = "")
             => MatchesManifest(PoolEntry(pool', local[a].metadata.BundleChecksum))]_vars

\* The metadata that list has to return: that of the directories under the
\* pool root whose metadata loads.
LoadableMetadata(p) ==
    {p.entries[n].meta[1] :
        n \in {m \in DOMAIN p.entries : MetadataLoad(p.entries[m]).err = ""}}

\* C17: list returns, without an error, the metadata of the directories
\* under the pool root whose metadata loads, nothing when the pool root
\* does not exist, and changes neither the pool nor the sources.
ListReturnsLoadable ==
    [][\A a \in Actors :
          (res'[a] # res[a] /\ res'[a].op = "list")
             => /\ pool' = pool
                /\ sources' = sources
                /\ pool.root = "none" => (res'[a].err = "" /\ res'[a].bundles = <<>>)
                /\ pool.root = "dir"
                      => /\ res'[a].err = ""
                         /\ Elements(res'[a].bundles) = LoadableMetadata(pool)]_vars

\* C21: while another actor holds the lock, every step of a Create, from
\* the call to the return, scans nothing and leaves META.json,
\* SHA256SUM.txt, STATE.json, TAGS.txt, the metadata directory and the
\* holder's marker as they were, and the Create returns the lock error.
RefusedCreateTouchesNothing ==
    [][\A a \in Actors :
          (/\ \E b \in Actors \ {a} : Holds(b)
           /\ pc'[a] # pc[a]
           /\ (local[a].op = "create" \/ local'[a].op = "create"))
             => /\ pc'[a] \in {"acq_open", "done"}
                /\ pc'[a] = "done" => res'[a] = Result("create", "locked")
                /\ local'[a].Records = <<>>
                /\ local'[a].bundleChecksum = <<>>
                /\ <<meta, manifest, state, tags, dotBundle>>' = <<meta, manifest, state, tags, dotBundle>>
                /\ marker' = marker]_vars

\* A Create has been refused while another actor holds the lock through
\* the handle of a direct acquisition, on a bundle an earlier Create wrote.
RefusedCreateTouchesNothingWitness ==
    \E a, b \in Actors :
        /\ a # b
        /\ handle[b] = "live" /\ marker = <<b>>
        /\ manifest # <<>>
        /\ pc[a] = "done" /\ res[a].op = "create" /\ res[a].err = "locked"

ScanSkipsSymlinks ==
    [][\A a \in Actors :
          (pc[a] = "cr_compute" /\ pc'[a] # pc[a]
              /\ \A p \in DOMAIN tree : tree[p].kind = "file" => tree[p].readable)
             => /\ pc'[a] = "cr_save_meta"
                /\ {local'[a].Records[i].FilePath : i \in 1..Len(local'[a].Records)}
                      = {p \in DOMAIN tree : tree[p].kind = "file"}
                /\ \A i \in 1..Len(local'[a].Records) : \A p \in DOMAIN tree :
                      tree[p].kind = "symlink"
                         => local'[a].Records[i].Checksum # HexBytes(tree[p].data)]_vars

\* C24: the lock is the lock of one bundle path.  AcquireLock on OtherPath
\* returns the lock error exactly when the marker of OtherPath exists,
\* whoever holds the lock of BundlePath, and the exclusive create of an
\* AcquireLock or a Create on BundlePath fails exactly when the marker of
\* BundlePath exists, whoever holds the lock of OtherPath; neither touches
\* the marker of the other bundle.
LockIsPerBundle ==
    [][\A a \in Actors :
          /\ (res'[a] # res[a] /\ res'[a].op = "acquire_other")
                => /\ (res'[a].err = "locked") <=> (otherMarker # <<>>)
                   /\ res'[a].err = "" => otherMarker' = <<a>>
                   /\ marker' = marker
          /\ (pc[a] = "acq_open" /\ pc'[a] # pc[a])
                => /\ (pc'[a] = "done" /\ res'[a].err = "locked") <=> (marker # <<>>)
                   /\ otherMarker' = otherMarker]_vars

\* One actor is inside Create on BundlePath while another holds the lock
\* of OtherPath: both locks are held at once.
LockIsPerBundleWitness ==
    \E a, b \in Actors :
        /\ a # b
        /\ pc[a] = "cr_save_files" /\ marker = <<a>>
        /\ otherMarker = <<b>>
        /\ pc[b] = "done" /\ res[b].op = "acquire_other" /\ res[b].err = ""

\* The lines of a text that ends with a newline.
ManifestLines(text) ==
    LET parts == SplitLines(text, <<>>)
    IN  SubSeq(parts, 1, Len(parts) - 1)

\* The part of a line before its first space.
HashOfLine(line) ==
    LET k == CHOOSE i \in 1..(Len(line) + 1) :
                 /\ i = Len(line) + 1 \/ line[i] = SP
                 /\ \A j \in 1..(i - 1) : line[j] # SP
    IN  SubSeq(line, 1, k - 1)

\* The line of a record: checksum, two spaces, "./" and the relative path.
ExpectedLine(record) == record.Checksum \o <<SP, SP, DOT, SLASH>> \o record.FilePath

\* C25: the SHA256SUM.txt that the Save of Create writes has one line for
\* each record of the scan, "<checksum>  ./<path>", and the checksums of
\* its lines ascend in byte order, in whatever order the scan found the
\* records.
SavedManifestSorted ==
    [][\A a \in Actors :
          (pc[a] = "cr_save_files" /\ pc'[a] = "cr_save_state")
             => LET lines == ManifestLines(manifest'[1])
                    records == local[a].Records
                IN  /\ manifest'[1] # <<>> => manifest'[1][Len(manifest'[1])] = NL
                    /\ Len(lines) = Len(records)
                    /\ {lines[i] : i \in 1..Len(lines)}
                          = {ExpectedLine(records[i]) : i \in 1..Len(records)}
                    /\ \A i, j \in 1..Len(lines) :
                          i < j => ByteOrderLeq(HashOfLine(lines[i]), HashOfLine(lines[j]))]_vars

\* A Create has written a manifest whose first line is the record of
\* "b c", which the walk found after the record of "a".
SavedManifestSortedWitness ==
    \E a \in Actors :
        /\ pc[a] = "cr_save_state"
        /\ manifest # <<>>
        /\ Len(local[a].Records) = 2
        /\ local[a].Records[1].FilePath = PathBC
        /\ local[a].Records[1].Checksum # local[a].Records[2].Checksum

\* A string of 1 to 64 bytes, each a lowercase letter, a digit, ".", "_"
\* or "-".
WellFormedTag(t) ==
    /\ Len(t) \in 1..64
    /\ \A i \in 1..Len(t) : t[i] \in (97..122) \cup (48..57) \cup {46, 95, 45}

\* The tag an argument stands for: without the white space around it, in
\* lowercase.
TagOf(s) == ToLower(TrimSpace(s))

ScanFails(t) == \E p \in DOMAIN t : t[p].kind = "file" /\ ~t[p].readable

\* C27: a Create writes no file of the bundle before its scan has ended:
\* its steps up to the scan leave META.json, SHA256SUM.txt, STATE.json and
\* TAGS.txt as they were, a scan that fails on a file leads to the release
\* of the lock and the return of the error without any write, and the
\* checksum written to META.json is the identity of all the records of
\* the scan.
NothingPersistedBeforeScan ==
    [][\A a \in Actors :
          /\ (/\ pc[a] \in {"idle", "done", "acq_open", "cr_mkdir", "cr_compute"}
              /\ pc'[a] # pc[a]
              /\ (local[a].op = "create" \/ local'[a].op = "create"))
                => <<meta, manifest, state, tags>>' = <<meta, manifest, state, tags>>
          /\ (pc[a] = "cr_compute" /\ pc'[a] # pc[a] /\ ScanFails(tree))
                => /\ pc'[a] = "cr_release"
                   /\ local'[a].err = "io"
          /\ (pc[a] = "cr_release" /\ pc'[a] # pc[a])
                => /\ <<meta, manifest, state, tags>>' = <<meta, manifest, state, tags>>
                   /\ res'[a] = Result("create", local[a].err)
          /\ (pc[a] = "cr_save_meta" /\ meta' # meta)
                => meta'[1].BundleChecksum
                      = ReferenceIdentity(Checksums(local[a].Records))]_vars

\* The scan of a Create has failed on the unreadable file "a" of a bundle
\* that an earlier Create wrote; the Create is about to release the lock.
NothingPersistedBeforeScanWitness ==
    \E a \in Actors :
        /\ pc[a] = "cr_release" /\ local[a].err = "io"
        /\ local[a].Records = <<>>
        /\ tree[PathA] = UnreadableFile
        /\ manifest # <<>> /\ manifest[1] # <<>>
        /\ meta # <<>>

\* C28: no step of a Verify, from the call to the return, creates or
\* removes the marker or changes a handle, and none returns the lock
\* error; the call goes on to the comparison of the files whenever the
\* manifest can be read, and the comparison and the update of the state
\* go on to the return, whether the marker exists or not.
VerifyTakesNoLock ==
    [][\A a \in Actors :
          (/\ pc'[a] # pc[a] \/ res'[a] # res[a]
           /\ \/ local[a].op = "verify"
              \/ local'[a].op = "verify"
              \/ (BetweenCalls(a) /\ res'[a].op = "verify"))
             => /\ marker' = marker
                /\ handle' = handle
                /\ res'[a].err # "locked"
                /\ (BetweenCalls(a) /\ dotBundle = "dir" /\ manifest # <<>>)
                      => pc'[a] = "v_verify"
                /\ (pc[a] = "v_verify" /\ ~ScanFails(tree)) => pc'[a] = "v_state_load"
                /\ pc[a] = "v_state_load" => pc'[a] = "v_state_save"
                /\ pc[a] = "v_state_save"
                      => (pc'[a] = "done" /\ res'[a].op = "verify" /\ res'[a].err = "")]_vars

\* A Verify has found the bundle intact and is about to save the state
\* while another actor holds the lock through the handle of a direct
\* acquisition.
VerifyTakesNoLockWitness ==
    \E a, b \in Actors :
        /\ a # b
        /\ handle[a] = "live" /\ marker = <<a>>
        /\ pc[a] = "done" /\ res[a] = Result("acquire", "")
        /\ pc[b] = "v_state_save" /\ local[b].corrupted = <<>>

ManifestHashes(text) ==
    LET lines == ManifestLines(text)
    IN  [i \in 1..Len(lines) |-> HashOfLine(lines[i])]

\* C30: when no Create is running on a bundle that has META.json and
\* SHA256SUM.txt, the bundle checksum in META.json is the identity of the
\* checksums in SHA256SUM.txt, also after a Create that failed between
\* its saves.
MetaMatchesManifest ==
    ((\A a \in Actors : pc[a] \notin CreateLocked \cup {"acq_open"})
        /\ meta # <<>> /\ manifest # <<>>)
       => meta[1].BundleChecksum = ReferenceIdentity(ManifestHashes(manifest[1]))

\* C31: the marker of an actor that holds the lock through a live handle
\* goes away only by the Release of that handle: a Release called again on
\* a handle released before leaves the marker of the later holder.
ReleaseRemovesOwnMarkerOnly ==
    [][\A b \in Actors :
          (marker = <<b>> /\ handle[b] = "live" /\ marker' # marker)
             => handle'[b] = "released"]_vars

\* The pool entry is a whole copy of one of the bundles given to import
\* that has the identity.
CompleteCopy(entry, identity) ==
    \E src \in FirstSources \cup SecondSources :
        /\ src.meta # <<>>
        /\ src.meta[1].BundleChecksum = identity
        /\ Copied(src, entry)

\* C32: an import returns the duplicate error for an identity only when
\* the pool holds a whole copy of a bundle of that identity, never because
\* of a destination that a failed import left partly written.
DuplicateMeansCompleteCopy ==
    [][\A a \in Actors :
          (pc[a] = "im_stat" /\ pc'[a] = "done" /\ res'[a].err = "duplicate")
             => CompleteCopy(PoolEntry(pool, local[a].metadata.BundleChecksum),
                             local[a].metadata.BundleChecksum)]_vars

\* The labels of a running import.
ImportLabels == {"im_stat", "im_mkroot", "im_copy_dir", "im_copy", "im_remove"}

\* C33: when no import is running, no entry of the pool holds a lock
\* marker, also when the bundle that was imported had the marker of a
\* running Create.
PoolEntriesHaveNoMarker ==
    (\A a \in Actors : pc[a] \notin ImportLabels)
       => \A n \in DOMAIN pool.entries : pool.entries[n].lock = <<>>

\* The size that a Create records for the directory: the bytes of its two
\* files.
DirectorySize(t) == FileSize(t[PathA]) + FileSize(t[PathBC])

\* C34: when every call has returned and a Create has succeeded on the
\* directory, whose files do not change, STATE.json carries the size that
\* the Create wrote, whatever Verify ran meanwhile.
StateKeepsCreateSize ==
    (/\ \A a \in Actors : BetweenCalls(a)
     /\ \E a \in Actors : pc[a] = "done" /\ res[a] = Result("create", "")
     /\ state # <<>>)
       => state[1].SizeBytes = DirectorySize(tree)

CreateKeepsTagsAndReplicas ==
    [][\A a \in Actors :
          (local[a].op = "create" /\ pc'[a] # pc[a] /\ meta # <<>>)
             => /\ (tags # <<>> => tags' = tags)
                /\ (state # <<>>
                      => (state' # <<>> /\ state'[1].Replicas = state[1].Replicas))]_vars

\* C37: ListBundles never aborts: whatever the pool root holds, a finished
\* list call has returned a list or an error value, never a run-time panic.
ListNeverPanics ==
    \A a \in Actors :
        (BetweenCalls(a) /\ res[a].op = "list")
           => res[a].err \in {"", "io"}

====
